---- MODULE Spec2Model ----
(***************************************************************************)
(* instr / rinstr: substring search over blobs, UTF-8 text and UTF-16 text *)
(* (src/instr.c).  One SQL call is modelled as a run of instr_func or      *)
(* rinstr_func: the adapter classifies its arguments and dispatches to one *)
(* of the six engines, whose loops are executed one iteration per step.    *)
(*                                                                         *)
(* Pointers are 0-based offsets into the buffer they point into (bytes for *)
(* blob and UTF-8, 16-bit units for UTF-16); buffers are sequences, so the *)
(* C expression ptr[k] is B[ptr+k+1].                                      *)
(***************************************************************************)
EXTENDS Integers, Sequences, FiniteSets, TLC

(***************************************************************************)
(* Bounds of the model.                                                    *)
(***************************************************************************)
MaxBlobLen   == 5   \* bytes in a blob haystack
MaxBlobNeedle == 3  \* bytes in a blob needle
MaxHayCps    == 3   \* codepoints in a well-formed text haystack
MaxNeedleCps == 2   \* codepoints in a well-formed text needle
MaxRawUnits  == 4   \* units in an arbitrary (possibly malformed) text haystack
MaxRawNeedle == 2   \* units in an arbitrary (possibly malformed) text needle
MaxHay16Cps  == 4   \* codepoints in a well-formed UTF-16 haystack
IterSlack    == 3   \* loop iterations explored beyond the haystack's length
MaxCursorUnits == 4 \* units in a buffer an encoding cursor is applied to

(***************************************************************************)
(* Program constants.  TLC's integers are 32 bits wide, so the two C       *)
(* integer types are modelled at reduced width: sqlite3_int64 as a 32-bit  *)
(* signed integer (MAX64 is its largest value, the default start of        *)
(* rinstr) and vsize (unsigned int) as a 16-bit unsigned integer.  Every   *)
(* buffer of the model is far shorter than either limit, and a wrapped     *)
(* vsize difference is, as in C, larger than every buffer length.          *)
(***************************************************************************)
MAX64 == 2147483647
VSIZE == 65536

SeqsUpTo(S, n) == UNION {[1..k -> S] : k \in 0..n}

RECURSIVE Flatten(_)
Flatten(ss) == IF ss = <<>> THEN <<>> ELSE Head(ss) \o Flatten(Tail(ss))

Max(S) == CHOOSE x \in S : \A y \in S : y <= x
Min(S) == CHOOSE x \in S : \A y \in S : x <= y

(***************************************************************************)
(* Skip-table builders.  The table is the 256-entry array the C code       *)
(* fills: first every entry with needlesize, then one write per needle     *)
(* index in loop order (later writes overwrite earlier ones), then the     *)
(* rounding pass when mask is set.                                         *)
(***************************************************************************)
(* RoundMask that clears the masked bits without adding the mask first:    *)
(* rounds down.                                                            *)
RoundMask_down(v, mask) == IF mask = 0 THEN v ELSE (v \div (mask + 1)) * (mask + 1)

RoundMask(v, mask) == IF mask = 0 THEN v ELSE ((v + mask) \div (mask + 1)) * (mask + 1)

RECURSIVE fbmh_fill(_, _, _, _)
fbmh_fill(skips, needle, ix, limit) ==
    IF ix < limit
    THEN fbmh_fill([skips EXCEPT ![needle[ix + 1]] = limit - ix], needle, ix + 1, limit)
    ELSE skips

(* fbmh_setup in which the leftmost occurrence of a byte wins, not the     *)
(* rightmost.                                                              *)
fbmh_setup_first(needle, needlesize, mask) ==
    LET at(c) == {ix \in 0..(needlesize - 2) : needle[ix + 1] = c}
    IN  [c \in 0..255 |->
            RoundMask(IF at(c) = {} THEN needlesize
                      ELSE (needlesize - 1) - Min(at(c)), mask)]

fbmh_setup(needle, needlesize, mask) ==
    LET filled == fbmh_fill([c \in 0..255 |-> needlesize], needle, 0, needlesize - 1)
    IN  [c \in 0..255 |-> RoundMask(filled[c], mask)]

RECURSIVE rbmh_fill(_, _, _)
rbmh_fill(skips, needle, ix) ==
    IF ix > 0
    THEN rbmh_fill([skips EXCEPT ![needle[ix + 1]] = ix], needle, ix - 1)
    ELSE skips

(* rbmh_setup without the fill loop: every skip is the needle's length. *)
rbmh_setup_nofill(needle, needlesize, mask) ==
    [c \in 0..255 |-> RoundMask(needlesize, mask)]

rbmh_setup(needle, needlesize, mask) ==
    LET filled == rbmh_fill([c \in 0..255 |-> needlesize], needle, needlesize - 1)
    IN  [c \in 0..255 |-> RoundMask(filled[c], mask)]

(***************************************************************************)
(* Encoding cursors.  Each macro yields the codepoint (-1 when invalid)    *)
(* and the new pointer and size; on -1 pointer and size are unchanged.     *)
(***************************************************************************)
(* UTF8_ADVANCE that takes a stray continuation byte for a codepoint. *)
UTF8_ADVANCE_contok(B, ptr, size) ==
    LET c0 == B[ptr + 1]
        c1 == B[ptr + 2]
        c2 == B[ptr + 3]
        cp3 == (c0 % 16) * 4096 + (c1 % 64) * 64 + (c2 % 64)
    IN  IF size >= 1 /\ c0 < 192
        THEN [cp |-> c0, ptr |-> ptr + 1, size |-> size - 1]
        ELSE IF size >= 2 /\ c0 >= 194 /\ c0 < 224
                /\ c1 >= 128 /\ c1 < 192
        THEN [cp |-> (c0 % 32) * 64 + (c1 % 64), ptr |-> ptr + 2, size |-> size - 2]
        ELSE IF size >= 3 /\ c0 >= 224 /\ c0 < 240
                /\ c1 >= 128 /\ c1 < 192
                /\ c2 >= 128 /\ c2 < 192
                /\ cp3 >= 2048
                /\ (cp3 < 55296 \/ cp3 >= 57344)
        THEN [cp |-> cp3, ptr |-> ptr + 3, size |-> size - 3]
        ELSE [cp |-> -1, ptr |-> ptr, size |-> size]

(* UTF8_ADVANCE whose 2-byte form accepts the lead bytes 0xC0 and 0xC1. *)
UTF8_ADVANCE_overlong(B, ptr, size) ==
    LET c0 == B[ptr + 1]
        c1 == B[ptr + 2]
        c2 == B[ptr + 3]
        c3 == B[ptr + 4]
        cp2 == (c0 % 32) * 64 + (c1 % 64)
        cp3 == (c0 % 16) * 4096 + (c1 % 64) * 64 + (c2 % 64)
        cp4 == (c0 % 8) * 262144 + (c1 % 64) * 4096 + (c2 % 64) * 64 + (c3 % 64)
    IN  IF size >= 1 /\ c0 < 128
        THEN [cp |-> c0, ptr |-> ptr + 1, size |-> size - 1]
        ELSE IF size >= 2 /\ c0 >= 192 /\ c0 < 224
                /\ c1 >= 128 /\ c1 < 192
        THEN [cp |-> cp2, ptr |-> ptr + 2, size |-> size - 2]
        ELSE IF size >= 3 /\ c0 >= 224 /\ c0 < 240
                /\ c1 >= 128 /\ c1 < 192
                /\ c2 >= 128 /\ c2 < 192
                /\ cp3 >= 2048
                /\ (cp3 < 55296 \/ cp3 >= 57344)
        THEN [cp |-> cp3, ptr |-> ptr + 3, size |-> size - 3]
        ELSE IF size >= 4 /\ c0 >= 240 /\ c0 < 245
                /\ c1 >= 128 /\ c1 < 192
                /\ c2 >= 128 /\ c2 < 192
                /\ c3 >= 128 /\ c3 < 192
                /\ cp4 >= 65536
                /\ cp4 < 1114112
        THEN [cp |-> cp4, ptr |-> ptr + 4, size |-> size - 4]
        ELSE [cp |-> -1, ptr |-> ptr, size |-> size]

(* UTF8_ADVANCE that steps one byte whatever the byte is. *)
UTF8_ADVANCE_bytewise(B, ptr, size) ==
    IF size >= 1
    THEN [cp |-> B[ptr + 1], ptr |-> ptr + 1, size |-> size - 1]
    ELSE [cp |-> -1, ptr |-> ptr, size |-> size]

UTF8_ADVANCE(B, ptr, size) ==
    LET c0 == B[ptr + 1]
        c1 == B[ptr + 2]
        c2 == B[ptr + 3]
        c3 == B[ptr + 4]
        cp2 == (c0 % 32) * 64 + (c1 % 64)
        cp3 == (c0 % 16) * 4096 + (c1 % 64) * 64 + (c2 % 64)
        cp4 == (c0 % 8) * 262144 + (c1 % 64) * 4096 + (c2 % 64) * 64 + (c3 % 64)
    IN  IF size >= 1 /\ c0 < 128
        THEN [cp |-> c0, ptr |-> ptr + 1, size |-> size - 1]
        ELSE IF size >= 2 /\ c0 >= 194 /\ c0 < 224
                /\ c1 >= 128 /\ c1 < 192
        THEN [cp |-> cp2, ptr |-> ptr + 2, size |-> size - 2]
        ELSE IF size >= 3 /\ c0 >= 224 /\ c0 < 240
                /\ c1 >= 128 /\ c1 < 192
                /\ c2 >= 128 /\ c2 < 192
                /\ cp3 >= 2048
                /\ (cp3 < 55296 \/ cp3 >= 57344)
        THEN [cp |-> cp3, ptr |-> ptr + 3, size |-> size - 3]
        ELSE IF size >= 4 /\ c0 >= 240 /\ c0 < 245
                /\ c1 >= 128 /\ c1 < 192
                /\ c2 >= 128 /\ c2 < 192
                /\ c3 >= 128 /\ c3 < 192
                /\ cp4 >= 65536
                /\ cp4 < 1114112
        THEN [cp |-> cp4, ptr |-> ptr + 4, size |-> size - 4]
        ELSE [cp |-> -1, ptr |-> ptr, size |-> size]

UTF8_RETREAT(B, ptr, size) ==
    LET c1 == B[ptr]
        c2 == B[ptr - 1]
        c3 == B[ptr - 2]
        c4 == B[ptr - 3]
        cp2 == (c2 % 32) * 64 + (c1 % 64)
        cp3 == (c3 % 16) * 4096 + (c2 % 64) * 64 + (c1 % 64)
        cp4 == (c4 % 8) * 262144 + (c3 % 64) * 4096 + (c2 % 64) * 64 + (c1 % 64)
    IN  IF size >= 1 /\ c1 < 128
        THEN [cp |-> c1, ptr |-> ptr - 1, size |-> size - 1]
        ELSE IF size >= 2 /\ c1 >= 128 /\ c1 < 192
                /\ c2 >= 194 /\ c2 < 224
        THEN [cp |-> cp2, ptr |-> ptr - 2, size |-> size - 2]
        ELSE IF size >= 3 /\ c1 >= 128 /\ c1 < 192
                /\ c2 >= 194 /\ c2 < 224
                /\ c3 >= 224 /\ c3 < 240
                /\ cp3 >= 2048
                /\ (cp3 < 55296 \/ cp3 >= 57344)
        THEN [cp |-> cp3, ptr |-> ptr - 3, size |-> size - 3]
        ELSE IF size >= 4 /\ c1 >= 128 /\ c1 < 192
                /\ c2 >= 194 /\ c2 < 224
                /\ c3 >= 194 /\ c3 < 224
                /\ c4 >= 240 /\ c4 < 245
                /\ cp4 >= 65536
                /\ cp4 < 1114112
        THEN [cp |-> cp4, ptr |-> ptr - 4, size |-> size - 4]
        ELSE [cp |-> -1, ptr |-> ptr, size |-> size]

(* UTF16_ADVANCE that takes a lone low surrogate for a whole codepoint. *)
UTF16_ADVANCE_lowok(B, ptr, size) ==
    LET c0 == B[ptr + 1]
        c1 == B[ptr + 2]
    IN  IF size >= 2 /\ (c0 < 55296 \/ c0 >= 56320)
        THEN [cp |-> c0, ptr |-> ptr + 1, size |-> size - 2]
        ELSE IF size >= 4 /\ c0 >= 55296 /\ c0 < 56320
                /\ c1 >= 56320 /\ c1 < 57344
        THEN [cp |-> ((c0 + 64) % 2048) * 1024 + (c1 % 1024),
              ptr |-> ptr + 2, size |-> size - 4]
        ELSE [cp |-> -1, ptr |-> ptr, size |-> size]

UTF16_ADVANCE(B, ptr, size) ==
    LET c0 == B[ptr + 1]
        c1 == B[ptr + 2]
    IN  IF size >= 2 /\ (c0 < 55296 \/ c0 >= 57344)
        THEN [cp |-> c0, ptr |-> ptr + 1, size |-> size - 2]
        ELSE IF size >= 4 /\ c0 >= 55296 /\ c0 < 56320
                /\ c1 >= 56320 /\ c1 < 57344
        THEN [cp |-> ((c0 + 64) % 2048) * 1024 + (c1 % 1024),
              ptr |-> ptr + 2, size |-> size - 4]
        ELSE [cp |-> -1, ptr |-> ptr, size |-> size]

UTF16_RETREAT(B, ptr, size) ==
    LET c1 == B[ptr]
        c2 == B[ptr - 1]
    IN  IF size >= 2 /\ (c1 < 55296 \/ c1 >= 57344)
        THEN [cp |-> c1, ptr |-> ptr - 1, size |-> size - 2]
        ELSE IF size >= 4 /\ c1 >= 56320 /\ c1 < 57344
                /\ c2 >= 55296 /\ c2 < 56320
        THEN [cp |-> ((c2 + 64) % 2048) * 1024 + (c1 % 1024),
              ptr |-> ptr + 2, size |-> size - 4]
        ELSE [cp |-> -1, ptr |-> ptr, size |-> size]

(***************************************************************************)
(* Byte view of a UTF-16 buffer: the engines cast the unit pointer to      *)
(* unsigned char const * for the skip table, so the byte order of the      *)
(* machine decides which half of a unit a byte index denotes.              *)
(***************************************************************************)
ByteOf16(B, k, big) ==
    LET u == B[(k \div 2) + 1]
    IN  IF (k % 2 = 0) = big THEN u \div 256 ELSE u % 256

Bytes16(B, big) == [k \in 1..(2 * Len(B)) |-> ByteOf16(B, k - 1, big)]

(* memcmp(haystack, needle, needlesize) = 0, with n the needle's units.    *)
memcmp0(B, ptr, N) == SubSeq(B, ptr + 1, ptr + Len(N)) = N

(***************************************************************************)
(* State of one call.                                                      *)
(*   func, userdata, argc, args, alloc : the call as SQLite makes it       *)
(*   pc        : position in the code                                      *)
(*   fn        : the engine instr_func / rinstr_func dispatched to         *)
(*   haystack  : the engine's moving haystack pointer (offset)             *)
(*   stacksize, needlesize, start, found, next : the engine's locals       *)
(*   result    : the engine's return value                                 *)
(*   outcome   : what the adapter reported to SQLite                       *)
(*   iters     : iterations executed so far by the loop the engine is in   *)
(*   bigendian : byte order of the machine                                 *)
(*   prior     : what the preceding call on the same haystack and needle   *)
(*               reported, when the statement has made one                 *)
(* and, for a scan of the generate_zeries table (src/zeries.c), where      *)
(* argc and args are the argc and argv of zeries_filter:                   *)
(*   index_num : the idxNum zeries_best_index chose (flag_desc or 0)       *)
(*   index_str : the idxStr it built, one constraint name per argument     *)
(*   cursor    : the zeries_cursor                                         *)
(*   rows      : the values zeries_column has handed out so far            *)
(***************************************************************************)
VARIABLES func, userdata, argc, args, alloc, pc, fn, haystack, stacksize,
          needlesize, start, found, next, result, outcome, iters, bigendian,
          prior, index_num, index_str, cursor, rows

vars == <<func, userdata, argc, args, alloc, pc, fn, haystack, stacksize,
          needlesize, start, found, next, result, outcome, iters, bigendian,
          prior, index_num, index_str, cursor, rows>>

table == <<index_num, index_str, cursor, rows>>

call == <<func, userdata, argc, args, alloc, bigendian, prior, table>>

(* A cursor as zeries_open leaves it: eof set.  The other fields are not   *)
(* initialised by zeries_open and no modelled method reads them while eof  *)
(* is set; they are 0 here.                                                *)
NoCursor == [cols |-> <<0, 0, 0>>, step |-> 0, stop |-> 0, eof |-> 1]

(* No table scan: the state of the table's variables in a function call.   *)
NoTable ==
    /\ index_num = 0
    /\ index_str = <<>>
    /\ cursor = NoCursor
    /\ rows = <<>>

NoPrior == [outcome |-> "pending", result |-> 0, start |-> 0, cursor |-> 0]

HayBuf    == args[1].buf
NeedleBuf == args[2].buf

(* A value: its type and the buffer the accessor used by the adapter       *)
(* (sqlite3_value_blob, _text or _text16) yields for it, in bytes for blob *)
(* and UTF-8 calls and in 16-bit units for UTF-16 calls.                   *)
BlobV(b) == [type |-> "BLOB", buf |-> b, int |-> 0]
TextV(b) == [type |-> "TEXT", buf |-> b, int |-> 0]
IntV(i) == [type |-> "INTEGER", buf |-> <<>>, int |-> i]
NullV == [type |-> "NULL", buf |-> <<>>, int |-> 0]

(* The loop guard of the model: a loop is followed for at most the         *)
(* haystack's length plus IterSlack iterations.                            *)
IterLimit == Len(HayBuf) + IterSlack

InitCall(F, U, A, M, E) ==
    /\ func \in F
    /\ userdata \in U
    /\ args \in A
    /\ argc = Len(args)
    /\ alloc \in M
    /\ bigendian \in E
    /\ pc = "call"
    /\ fn = "none"
    /\ haystack = 0
    /\ stacksize = 0
    /\ needlesize = 0
    /\ start = 0
    /\ found = 0
    /\ next = 0
    /\ result = 0
    /\ outcome = "pending"
    /\ iters = 0
    /\ prior = NoPrior
    /\ NoTable

(***************************************************************************)
(* The adapter: instr_func and rinstr_func differ in the default start and *)
(* in the engines they call.                                               *)
(***************************************************************************)
Finish(o) ==
    /\ pc' = "end"
    /\ outcome' = o
    /\ UNCHANGED <<call, fn, haystack, stacksize, needlesize, start, found,
                   next, result, iters>>

Enter(f, ss, ns, st) ==
    /\ pc' = "entry"
    /\ fn' = f
    /\ haystack' = 0
    /\ stacksize' = ss
    /\ needlesize' = ns
    /\ start' = st
    /\ UNCHANGED <<call, found, next, result, outcome, iters>>

(* Dispatch that reads a null start as the integer 0 instead of ending the *)
(* call.                                                                   *)
Dispatch_nullstart(dflt, blobfn, utf8fn, utf16fn) ==
    IF argc < 2 THEN Finish("confused")
    ELSE IF args[1].type = "NULL" THEN Finish("null")
    ELSE IF args[2].type = "NULL" THEN Finish("null")
    ELSE LET st == IF argc >= 3 THEN args[3].int ELSE dflt
         IN  IF alloc # "ok" THEN Finish("nomem")
             ELSE IF args[1].type = "BLOB" /\ args[2].type = "BLOB"
             THEN Enter(blobfn, Len(HayBuf), Len(NeedleBuf), st)
             ELSE IF userdata = "malformed_8"
             THEN Enter(utf8fn, Len(HayBuf), Len(NeedleBuf), st)
             ELSE Enter(utf16fn, 2 * Len(HayBuf), 2 * Len(NeedleBuf), st)

(* Dispatch that takes the blob branch when either value is a blob. *)
Dispatch_anyblob(dflt, blobfn, utf8fn, utf16fn) ==
    IF args[1].type = "NULL" \/ args[2].type = "NULL"
       \/ (argc >= 3 /\ args[3].type = "NULL")
    THEN Finish("null")
    ELSE LET st == IF argc >= 3 THEN args[3].int ELSE dflt
         IN  IF alloc # "ok" THEN Finish("nomem")
             ELSE IF args[1].type = "BLOB" \/ args[2].type = "BLOB"
             THEN Enter(blobfn, Len(HayBuf), Len(NeedleBuf), st)
             ELSE IF userdata = "malformed_8"
             THEN Enter(utf8fn, Len(HayBuf), Len(NeedleBuf), st)
             ELSE Enter(utf16fn, 2 * Len(HayBuf), 2 * Len(NeedleBuf), st)

Dispatch(dflt, blobfn, utf8fn, utf16fn) ==
    IF argc < 2 THEN Finish("confused")
    ELSE IF args[1].type = "NULL" THEN Finish("null")
    ELSE IF args[2].type = "NULL" THEN Finish("null")
    ELSE IF argc >= 3 /\ args[3].type = "NULL" THEN Finish("null")
    ELSE LET st == IF argc >= 3 THEN args[3].int ELSE dflt
         IN  IF args[1].type = "BLOB" /\ args[2].type = "BLOB"
             THEN IF (alloc = "haystack" \/ Len(HayBuf) = 0) /\ Len(HayBuf) > 0
                  THEN Finish("nomem")
                  ELSE IF (alloc = "needle" \/ Len(NeedleBuf) = 0) /\ Len(NeedleBuf) > 0
                  THEN Finish("nomem")
                  ELSE Enter(blobfn, Len(HayBuf), Len(NeedleBuf), st)
             ELSE IF userdata = "malformed_8"
             THEN IF alloc = "haystack" THEN Finish("nomem")
                  ELSE IF alloc = "needle" THEN Finish("nomem")
                  ELSE Enter(utf8fn, Len(HayBuf), Len(NeedleBuf), st)
             ELSE IF userdata = "malformed_16"
             THEN IF alloc = "haystack" THEN Finish("nomem")
                  ELSE IF alloc = "needle" THEN Finish("nomem")
                  ELSE Enter(utf16fn, 2 * Len(HayBuf), 2 * Len(NeedleBuf), st)
             ELSE Finish("confused")

instr_func ==
    /\ pc = "call"
    /\ func = "instr"
    /\ Dispatch(1, "instr_blob", "instr_utf8", "instr_utf16")

rinstr_func ==
    /\ pc = "call"
    /\ func = "rinstr"
    /\ Dispatch(MAX64, "rinstr_blob", "rinstr_utf8", "rinstr_utf16")

(* The tail of both adapters: map the engine's result to the report.       *)
func_result ==
    /\ pc = "return"
    /\ pc' = "end"
    /\ outcome' = IF result < 0 THEN userdata ELSE "int"
    /\ UNCHANGED <<call, fn, haystack, stacksize, needlesize, start, found,
                   next, result, iters>>

(***************************************************************************)
(* Steps shared by the engines' translations.                              *)
(***************************************************************************)
Return(r) ==
    /\ pc' = "return"
    /\ result' = r
    /\ UNCHANGED <<call, fn, haystack, stacksize, needlesize, start, found,
                   next, outcome, iters>>

(* Leave straight-line code for the loop at pc p with the given locals.    *)
Goto(p, h, ss, st, f, nx) ==
    /\ pc' = p
    /\ haystack' = h
    /\ stacksize' = ss
    /\ start' = st
    /\ found' = f
    /\ next' = nx
    /\ iters' = 0
    /\ UNCHANGED <<call, fn, needlesize, result, outcome>>

(* One loop iteration that does not return.                                *)
Iterate(h, ss, f, nx) ==
    /\ iters < IterLimit
    /\ iters' = iters + 1
    /\ haystack' = h
    /\ stacksize' = ss
    /\ found' = f
    /\ next' = nx
    /\ UNCHANGED <<call, pc, fn, needlesize, start, result, outcome>>

(* One loop iteration that returns r.                                      *)
IterateReturn(r) ==
    /\ iters < IterLimit
    /\ iters' = iters + 1
    /\ pc' = "return"
    /\ result' = r
    /\ UNCHANGED <<call, fn, haystack, stacksize, needlesize, start, found,
                   next, outcome>>

(***************************************************************************)
(* instr_blob                                                              *)
(***************************************************************************)
instr_blob ==
    /\ pc = "entry"
    /\ fn = "instr_blob"
    /\ LET skipping == start > 1
           found1 == IF skipping THEN start ELSE 1
           start1 == IF skipping THEN start - 1 ELSE start
           hay1   == IF skipping THEN haystack + start1 ELSE haystack
           size1  == IF skipping THEN (stacksize - start1) % VSIZE ELSE stacksize
       IN  IF skipping /\ start1 > stacksize THEN Return(0)
           ELSE IF needlesize > size1 THEN Return(0)
           ELSE IF needlesize <= 0 THEN Return(found1)
           ELSE IF needlesize > 1
           THEN Goto("multi", hay1, size1, start1, found1, next)
           ELSE Goto("single", hay1, size1, start1, found1, next)

instr_blob_multi ==
    /\ pc = "multi"
    /\ fn = "instr_blob"
    /\ IF stacksize >= needlesize
       THEN IF memcmp0(HayBuf, haystack, NeedleBuf)
            THEN IterateReturn(found)
            ELSE LET skips == fbmh_setup(NeedleBuf, needlesize, 0)
                     skip  == skips[HayBuf[haystack + needlesize]]
                 IN  Iterate(haystack + skip, (stacksize - skip) % VSIZE,
                             found + skip, next)
       ELSE Return(0)

instr_blob_single ==
    /\ pc = "single"
    /\ fn = "instr_blob"
    /\ IF stacksize > 0
       THEN IF HayBuf[haystack + 1] = NeedleBuf[1]
            THEN IterateReturn(found)
            ELSE Iterate(haystack + 1, (stacksize - 1) % VSIZE, found + 1, next)
       ELSE Return(0)

(***************************************************************************)
(* rinstr_blob                                                             *)
(***************************************************************************)
rinstr_blob ==
    /\ pc = "entry"
    /\ fn = "rinstr_blob"
    /\ IF start <= 0 THEN Return(0)
       ELSE IF needlesize > stacksize THEN Return(0)
       ELSE LET start1 == IF start > 1 /\ start - 1 > (stacksize - needlesize) % VSIZE
                          THEN (stacksize - needlesize + 1) % VSIZE
                          ELSE start
                found1 == IF start > 1 THEN start1 ELSE 1
                size1  == IF start > 1 THEN (start1 - 1) % VSIZE ELSE 0
                hay1   == IF start > 1 THEN haystack + size1 ELSE haystack
            IN  IF needlesize <= 0
                THEN /\ pc' = "return"
                     /\ result' = found1
                     /\ haystack' = hay1
                     /\ stacksize' = size1
                     /\ start' = start1
                     /\ found' = found1
                     /\ UNCHANGED <<call, fn, needlesize, next, outcome, iters>>
                ELSE IF needlesize > 1
                THEN Goto("multi", hay1, size1, start1, found1, next)
                ELSE Goto("single", hay1, size1, start1, found1, next)

rinstr_blob_multi ==
    /\ pc = "multi"
    /\ fn = "rinstr_blob"
    /\ IF memcmp0(HayBuf, haystack, NeedleBuf)
       THEN IterateReturn(found)
       ELSE LET skips == rbmh_setup(NeedleBuf, needlesize, 0)
                skip  == skips[HayBuf[haystack + 1]]
            IN  IF skip > stacksize
                THEN IterateReturn(0)
                ELSE Iterate(haystack - skip, (stacksize - skip) % VSIZE,
                             found - skip, next)

rinstr_blob_single ==
    /\ pc = "single"
    /\ fn = "rinstr_blob"
    /\ IF HayBuf[haystack + 1] = NeedleBuf[1]
       THEN IterateReturn(found)
       ELSE IF stacksize <= 0
       THEN IterateReturn(0)
       ELSE Iterate(haystack - 1, (stacksize - 1) % VSIZE, found - 1, next)


(***************************************************************************)
(* instr_utf8                                                              *)
(***************************************************************************)
instr_utf8 ==
    /\ pc = "entry"
    /\ fn = "instr_utf8"
    /\ IF needlesize > stacksize THEN Return(0)
       ELSE Goto("start", haystack, stacksize, start, 1, next)

(* The loop that walks to position start, and the code after it.           *)
instr_utf8_start ==
    /\ pc = "start"
    /\ fn = "instr_utf8"
    /\ IF found < start /\ stacksize > needlesize
       THEN LET a == UTF8_ADVANCE(HayBuf, haystack, stacksize)
            IN  IF a.cp = -1 THEN IterateReturn(-1)
                ELSE Iterate(a.ptr, a.size, found + 1, next)
       ELSE IF found < start THEN Return(0)
       ELSE IF needlesize <= 0 THEN Return(found)
       ELSE IF needlesize > 1
       THEN Goto("multi", haystack, stacksize, start, found, haystack)
       ELSE Goto("single", haystack, stacksize, start, found, next)

instr_utf8_multi ==
    /\ pc = "multi"
    /\ fn = "instr_utf8"
    /\ IF stacksize >= needlesize
       THEN LET compare == haystack >= next
                skips == fbmh_setup(NeedleBuf, needlesize, 0)
                skip  == skips[HayBuf[haystack + needlesize]]
                next1 == IF compare THEN haystack + skip ELSE next
                a     == UTF8_ADVANCE(HayBuf, haystack, stacksize)
            IN  IF compare /\ memcmp0(HayBuf, haystack, NeedleBuf)
                THEN IterateReturn(found)
                ELSE IF compare /\ (stacksize - skip) % VSIZE < needlesize
                THEN IterateReturn(0)
                ELSE IF a.cp = -1 THEN IterateReturn(-1)
                ELSE Iterate(a.ptr, a.size, found + 1, next1)
       ELSE Return(0)

instr_utf8_single ==
    /\ pc = "single"
    /\ fn = "instr_utf8"
    /\ IF stacksize > 0
       THEN LET a == UTF8_ADVANCE(HayBuf, haystack, stacksize)
            IN  IF HayBuf[haystack + 1] = NeedleBuf[1] THEN IterateReturn(found)
                ELSE IF a.cp = -1 THEN IterateReturn(-1)
                ELSE Iterate(a.ptr, a.size, found + 1, next)
       ELSE Return(0)

(***************************************************************************)
(* instr_utf16: haystack and next count 16-bit units, the sizes bytes.     *)
(***************************************************************************)
instr_utf16 ==
    /\ pc = "entry"
    /\ fn = "instr_utf16"
    /\ IF needlesize > stacksize THEN Return(0)
       ELSE Goto("start", haystack, stacksize, start, 1, next)

instr_utf16_start ==
    /\ pc = "start"
    /\ fn = "instr_utf16"
    /\ IF found < start /\ stacksize > needlesize
       THEN LET a == UTF16_ADVANCE(HayBuf, haystack, stacksize)
            IN  IF a.cp = -1 THEN IterateReturn(-1)
                ELSE Iterate(a.ptr, a.size, found + 1, next)
       ELSE IF found < start THEN Return(0)
       ELSE IF needlesize <= 0 THEN Return(found)
       ELSE IF needlesize > 2
       THEN Goto("multi", haystack, stacksize, start, found, haystack)
       ELSE Goto("single", haystack, stacksize, start, found, next)

(* instr_utf16_multi that moves the floor by the skip taken as a count of  *)
(* 16-bit units, not of bytes.                                             *)
instr_utf16_multi_unitskip ==
    /\ pc = "multi"
    /\ fn = "instr_utf16"
    /\ IF stacksize >= needlesize
       THEN LET compare == haystack >= next
                skips == fbmh_setup(Bytes16(NeedleBuf, bigendian), needlesize, 1)
                skip  == skips[ByteOf16(HayBuf, 2 * haystack + needlesize - 1, bigendian)]
                next1 == IF compare THEN haystack + skip ELSE next
                a     == UTF16_ADVANCE(HayBuf, haystack, stacksize)
            IN  IF compare /\ memcmp0(HayBuf, haystack, NeedleBuf)
                THEN IterateReturn(found)
                ELSE IF compare /\ (stacksize - skip) % VSIZE < needlesize
                THEN IterateReturn(0)
                ELSE IF a.cp = -1 THEN IterateReturn(-1)
                ELSE Iterate(a.ptr, a.size, found + 1, next1)
       ELSE Return(0)

instr_utf16_multi ==
    /\ pc = "multi"
    /\ fn = "instr_utf16"
    /\ IF stacksize >= needlesize
       THEN LET compare == haystack >= next
                skips == fbmh_setup(Bytes16(NeedleBuf, bigendian), needlesize, 1)
                skip  == skips[ByteOf16(HayBuf, 2 * haystack + needlesize - 1, bigendian)]
                next1 == IF compare THEN haystack + (skip \div 2) ELSE next
                a     == UTF16_ADVANCE(HayBuf, haystack, stacksize)
            IN  IF compare /\ memcmp0(HayBuf, haystack, NeedleBuf)
                THEN IterateReturn(found)
                ELSE IF compare /\ (stacksize - skip) % VSIZE < needlesize
                THEN IterateReturn(0)
                ELSE IF a.cp = -1 THEN IterateReturn(-1)
                ELSE Iterate(a.ptr, a.size, found + 1, next1)
       ELSE Return(0)

instr_utf16_single ==
    /\ pc = "single"
    /\ fn = "instr_utf16"
    /\ IF stacksize > 0
       THEN LET a == UTF16_ADVANCE(HayBuf, haystack, stacksize)
            IN  IF HayBuf[haystack + 1] = NeedleBuf[1] THEN IterateReturn(found)
                ELSE IF a.cp = -1 THEN IterateReturn(-1)
                ELSE Iterate(a.ptr, a.size, found + 1, next)
       ELSE Return(0)

(***************************************************************************)
(* rinstr_utf8                                                             *)
(***************************************************************************)
rinstr_utf8 ==
    /\ pc = "entry"
    /\ fn = "rinstr_utf8"
    /\ IF start <= 0 THEN Return(0)
       ELSE IF needlesize > stacksize THEN Return(0)
       ELSE Goto("start", haystack, stacksize, start, 1, next)

(* AfterClamp that reports the cursor's unit offset + 1 for an empty       *)
(* needle instead of the codepoint count.                                  *)
AfterClamp_unitpos(n, unit) ==
    /\ iters + n <= IterLimit
    /\ IF needlesize <= 0
       THEN /\ pc' = "return"
            /\ result' = haystack + 1
            /\ iters' = iters + n
            /\ UNCHANGED <<stacksize, next>>
       ELSE /\ pc' = IF needlesize > unit THEN "multi" ELSE "single"
            /\ stacksize' = haystack * unit
            /\ next' = IF needlesize > unit THEN haystack ELSE next
            /\ iters' = 0
            /\ UNCHANGED result
    /\ UNCHANGED <<call, fn, haystack, needlesize, start, found, outcome>>

(* The code after the clamping loop, entered after n more iterations       *)
(* (1 when the loop is left by its break, 0 when its condition fails);     *)
(* unit is the size of a storage unit in bytes.                            *)
AfterClamp(n, unit) ==
    /\ iters + n <= IterLimit
    /\ IF needlesize <= 0
       THEN /\ pc' = "return"
            /\ result' = found
            /\ iters' = iters + n
            /\ UNCHANGED <<stacksize, next>>
       ELSE /\ pc' = IF needlesize > unit THEN "multi" ELSE "single"
            /\ stacksize' = haystack * unit
            /\ next' = IF needlesize > unit THEN haystack ELSE next
            /\ iters' = 0
            /\ UNCHANGED result
    /\ UNCHANGED <<call, fn, haystack, needlesize, start, found, outcome>>

rinstr_utf8_start ==
    /\ pc = "start"
    /\ fn = "rinstr_utf8"
    /\ IF found < start /\ stacksize > needlesize
       THEN LET a == UTF8_ADVANCE(HayBuf, haystack, stacksize)
            IN  IF a.cp = -1 THEN IterateReturn(-1)
                ELSE IF a.size < needlesize THEN AfterClamp(1, 1)
                ELSE Iterate(a.ptr, a.size, found + 1, next)
       ELSE AfterClamp(0, 1)

(* codepoint is not tested after UTF8_RETREAT: found is decremented        *)
(* whether or not the cursor moved.                                        *)
rinstr_utf8_multi ==
    /\ pc = "multi"
    /\ fn = "rinstr_utf8"
    /\ LET compare == haystack <= next
           skips == rbmh_setup(NeedleBuf, needlesize, 0)
           skip  == skips[HayBuf[haystack + 1]]
           next1 == IF compare THEN haystack - skip ELSE next
           r     == UTF8_RETREAT(HayBuf, haystack, stacksize)
       IN  IF compare /\ memcmp0(HayBuf, haystack, NeedleBuf)
           THEN IterateReturn(found)
           ELSE IF compare /\ skip > stacksize THEN IterateReturn(0)
           ELSE IF stacksize <= 0 THEN IterateReturn(0)
           ELSE Iterate(r.ptr, r.size, found - 1, next1)

rinstr_utf8_single ==
    /\ pc = "single"
    /\ fn = "rinstr_utf8"
    /\ LET r == UTF8_RETREAT(HayBuf, haystack, stacksize)
       IN  IF HayBuf[haystack + 1] = NeedleBuf[1] THEN IterateReturn(found)
           ELSE IF stacksize <= 0 THEN IterateReturn(0)
           ELSE Iterate(r.ptr, r.size, found - 1, next)

(***************************************************************************)
(* rinstr_utf16.  UTF16_RETREAT moves the pointer forward over a surrogate *)
(* pair, so the cursor can leave the buffer; a read outside the buffer is  *)
(* undefined behaviour, modelled as a return with any value.               *)
(***************************************************************************)
UBResults == (-1)..(Len(HayBuf) + 1)

rinstr_utf16 ==
    /\ pc = "entry"
    /\ fn = "rinstr_utf16"
    /\ IF start <= 0 THEN Return(0)
       ELSE IF needlesize > stacksize THEN Return(0)
       ELSE Goto("start", haystack, stacksize, start, 1, next)

rinstr_utf16_start ==
    /\ pc = "start"
    /\ fn = "rinstr_utf16"
    /\ IF found < start /\ stacksize > needlesize
       THEN LET a == UTF16_ADVANCE(HayBuf, haystack, stacksize)
            IN  IF a.cp = -1 THEN IterateReturn(-1)
                ELSE IF a.size < needlesize THEN AfterClamp(1, 2)
                ELSE Iterate(a.ptr, a.size, found + 1, next)
       ELSE AfterClamp(0, 2)

rinstr_utf16_multi ==
    /\ pc = "multi"
    /\ fn = "rinstr_utf16"
    /\ LET compare == haystack <= next
           skips == rbmh_setup(Bytes16(NeedleBuf, bigendian), needlesize, 1)
           skip  == skips[ByteOf16(HayBuf, 2 * haystack, bigendian)]
           next1 == IF compare THEN haystack - (skip \div 2) ELSE next
           r     == UTF16_RETREAT(HayBuf, haystack, stacksize)
       IN  IF compare /\ memcmp0(HayBuf, haystack, NeedleBuf)
           THEN IterateReturn(found)
           ELSE IF compare /\ skip > stacksize THEN IterateReturn(0)
           ELSE IF stacksize <= 0 THEN IterateReturn(0)
           ELSE IF haystack > Len(HayBuf)
           THEN \E u \in UBResults : IterateReturn(u)
           ELSE Iterate(r.ptr, r.size, found - 1, next1)

rinstr_utf16_single ==
    /\ pc = "single"
    /\ fn = "rinstr_utf16"
    /\ LET r == UTF16_RETREAT(HayBuf, haystack, stacksize)
       IN  IF haystack >= Len(HayBuf)
           THEN \E u \in UBResults : IterateReturn(u)
           ELSE IF HayBuf[haystack + 1] = NeedleBuf[1] THEN IterateReturn(found)
           ELSE IF stacksize <= 0 THEN IterateReturn(0)
           ELSE Iterate(r.ptr, r.size, found - 1, next)

(***************************************************************************)
(* Reference search (naive double loop) over units.                        *)
(***************************************************************************)
MIN64 == -MAX64 - 1

StartArg == IF argc >= 3 THEN args[3].int ELSE IF func = "instr" THEN 1 ELSE MAX64

OccursAt(H, N, p) ==
    /\ p >= 1
    /\ p + Len(N) - 1 <= Len(H)
    /\ \A i \in 1..Len(N) : H[p + i - 1] = N[i]

NaiveFirst(H, N, s) ==
    LET ps == {p \in 1..Len(H) : p >= s /\ OccursAt(H, N, p)}
    IN  IF ps = {} THEN 0 ELSE Min(ps)

NaiveLast(H, N, s) ==
    LET ps == {p \in 1..Len(H) : p <= s /\ OccursAt(H, N, p)}
    IN  IF ps = {} THEN 0 ELSE Max(ps)

Returned == pc \in {"return", "end"} /\ fn # "none"

(***************************************************************************)
(* Blob calls.                                                             *)
(***************************************************************************)
BlobBytes   == {97, 98}
BlobExample == <<97, 98, 99, 97, 98, 99, 97, 98, 99>>   \* "abcabcabc"
BlobExampleNeedle == <<98, 99, 97>>                     \* "bca"
BlobHays    == SeqsUpTo(BlobBytes, MaxBlobLen) \cup {BlobExample}
BlobNeedles == SeqsUpTo(BlobBytes, MaxBlobNeedle) \cup {BlobExampleNeedle}
BlobStarts  == (-1..(MaxBlobLen + 2)) \cup {MAX64, MIN64}

BlobArgs ==
    {<<BlobV(h), BlobV(n)>> : h \in BlobHays, n \in BlobNeedles}
    \cup {<<BlobV(h), BlobV(n), IntV(s)>> :
             h \in BlobHays, n \in BlobNeedles, s \in BlobStarts}

InitBlob == InitCall({"instr", "rinstr"}, {"malformed_8"}, BlobArgs, {"ok"}, {FALSE})

NextBlob ==
    \/ instr_func
    \/ rinstr_func
    \/ instr_blob
    \/ instr_blob_multi
    \/ instr_blob_single
    \/ rinstr_blob
    \/ rinstr_blob_multi
    \/ rinstr_blob_single
    \/ func_result

SpecBlob == InitBlob /\ [][NextBlob]_vars

(* C1: instr_blob with a non-empty needle returns the smallest 1-based     *)
(* byte position p >= max(start,1) at which the needle occurs entirely     *)
(* inside the haystack, and 0 when there is none.                          *)
C1_ForwardBlobIsNaive ==
    (Returned /\ fn = "instr_blob" /\ needlesize > 0)
        => result = NaiveFirst(HayBuf, NeedleBuf, StartArg)

(* A Horspool run that skipped at least once and found a later match.      *)
C1_Witness ==
    /\ pc = "return"
    /\ fn = "instr_blob"
    /\ needlesize > 1
    /\ iters > 1
    /\ StartArg > 1
    /\ result > StartArg

(* C2: rinstr_blob with a non-empty needle returns the largest 1-based     *)
(* byte position p <= start at which the needle occurs entirely inside the *)
(* haystack, and 0 when there is none; "abcabcabc" / "bca" gives 2 forward *)
(* and 5 backward with the default start.                                  *)
C2_BackwardBlobIsNaive ==
    /\ (Returned /\ fn = "rinstr_blob" /\ needlesize > 0)
          => result = NaiveLast(HayBuf, NeedleBuf, StartArg)
    /\ (Returned /\ HayBuf = BlobExample /\ NeedleBuf = BlobExampleNeedle /\ argc = 2)
          => result = IF func = "instr" THEN 2 ELSE 5

(* The documented example, searched backward, after at least one skip.     *)
C2_Witness ==
    /\ pc = "return"
    /\ fn = "rinstr_blob"
    /\ HayBuf = BlobExample
    /\ NeedleBuf = BlobExampleNeedle
    /\ argc = 2
    /\ iters > 1
    /\ result = 5

(***************************************************************************)
(* Text calls.                                                             *)
(***************************************************************************)
NextText ==
    \/ instr_func
    \/ rinstr_func
    \/ instr_utf8
    \/ instr_utf8_start
    \/ instr_utf8_multi
    \/ instr_utf8_single
    \/ instr_utf16
    \/ instr_utf16_start
    \/ instr_utf16_multi
    \/ instr_utf16_single
    \/ rinstr_utf8
    \/ rinstr_utf8_start
    \/ rinstr_utf8_multi
    \/ rinstr_utf8_single
    \/ rinstr_utf16
    \/ rinstr_utf16_start
    \/ rinstr_utf16_multi
    \/ rinstr_utf16_single
    \/ func_result

TextStarts(n) == (0..(n + 1)) \cup {MAX64, MIN64}

TextArgs(hays, needles, starts) ==
    {<<TextV(h), TextV(n)>> : h \in hays, n \in needles}
    \cup {<<TextV(h), TextV(n), IntV(s)>> : h \in hays, n \in needles, s \in starts}

(* Well-formed text: sequences of whole codepoints of 1, 2, 3 and 4 bytes  *)
(* (a, U+00E9, U+20A9, U+1F0A9), respectively of 1 and 2 units.            *)
Cps8  == {<<97>>, <<195, 169>>, <<226, 130, 169>>, <<240, 159, 130, 169>>}
Cps16 == {<<97>>, <<24832>>, <<55357, 56832>>}

WellFormed(cps, n) == {Flatten(ss) : ss \in SeqsUpTo(cps, n)}

InitText ==
    \/ InitCall({"instr", "rinstr"}, {"malformed_8"},
                TextArgs(WellFormed(Cps8, MaxHayCps), WellFormed(Cps8, MaxNeedleCps),
                         TextStarts(MaxHayCps)),
                {"ok"}, {FALSE})
    \/ InitCall({"instr", "rinstr"}, {"malformed_16"},
                TextArgs(WellFormed(Cps16, MaxHay16Cps), WellFormed(Cps16, MaxNeedleCps),
                         TextStarts(MaxHay16Cps)),
                {"ok"}, BOOLEAN)

SpecText == InitText /\ [][NextText]_vars

(* Arbitrary text: every sequence of units, well-formed or not.            *)
Raw8  == {97, 130, 195, 226}
Raw16 == {97, 55357, 56832}

InitTextRaw ==
    \/ InitCall({"instr", "rinstr"}, {"malformed_8"},
                TextArgs(SeqsUpTo(Raw8, MaxRawUnits), SeqsUpTo(Raw8, MaxRawNeedle),
                         TextStarts(MaxRawUnits)),
                {"ok"}, {FALSE})
    \/ InitCall({"instr", "rinstr"}, {"malformed_16"},
                TextArgs(SeqsUpTo(Raw16, MaxRawUnits), SeqsUpTo(Raw16, MaxRawNeedle),
                         TextStarts(MaxRawUnits)),
                {"ok"}, BOOLEAN)

SpecTextRaw == InitTextRaw /\ [][NextText]_vars

(***************************************************************************)
(* Reference decoding, from the definitions of UTF-8 and UTF-16: the       *)
(* number of units of the well-formed codepoint at offset i, 0 if none.    *)
(***************************************************************************)
IsCont(B, i) == i < Len(B) /\ B[i + 1] >= 128 /\ B[i + 1] <= 191

RefLen8(B, i) ==
    LET b == B[i + 1]
    IN  IF b <= 127 THEN 1
        ELSE IF b >= 194 /\ b <= 223 /\ IsCont(B, i + 1) THEN 2
        ELSE IF b >= 224 /\ b <= 239 /\ IsCont(B, i + 1) /\ IsCont(B, i + 2)
                /\ (b = 224 => B[i + 2] >= 160)
                /\ (b = 237 => B[i + 2] <= 159) THEN 3
        ELSE IF b >= 240 /\ b <= 244 /\ IsCont(B, i + 1) /\ IsCont(B, i + 2)
                /\ IsCont(B, i + 3)
                /\ (b = 240 => B[i + 2] >= 144)
                /\ (b = 244 => B[i + 2] <= 143) THEN 4
        ELSE 0

RefLen16(B, i) ==
    LET u == B[i + 1]
    IN  IF u < 55296 \/ u > 57343 THEN 1
        ELSE IF u <= 56319 /\ i + 1 < Len(B) /\ B[i + 2] >= 56320 /\ B[i + 2] <= 57343
        THEN 2
        ELSE 0

RefLen(B, i) == IF userdata = "malformed_8" THEN RefLen8(B, i) ELSE RefLen16(B, i)

(* Offsets of the codepoints of the longest well-formed prefix of B.       *)
RECURSIVE Boundaries(_, _)
Boundaries(B, i) ==
    IF i >= Len(B) \/ RefLen(B, i) = 0 THEN <<>>
    ELSE <<i>> \o Boundaries(B, i + RefLen(B, i))

(* Offset of the first decoding error of B, Len(B) when B is well-formed.  *)
ValidLen(B) ==
    LET bs == Boundaries(B, 0)
    IN  IF bs = <<>> THEN 0 ELSE bs[Len(bs)] + RefLen(B, bs[Len(bs)])

IsWellFormed(B) == ValidLen(B) = Len(B)

(* The codepoints of the well-formed prefix, each as its units.            *)
Codepoints(B) ==
    LET bs == Boundaries(B, 0)
    IN  [k \in 1..Len(bs) |-> SubSeq(B, bs[k] + 1, bs[k] + RefLen(B, bs[k]))]

(* Offset at which codepoint number p of B starts (p-1 codepoints decoded  *)
(* from the start); -1 if B has fewer than p-1 codepoints.                 *)
CpOffset(B, p) ==
    LET bs == Boundaries(B, 0)
    IN  IF p >= 1 /\ p <= Len(bs) THEN bs[p]
        ELSE IF p = Len(bs) + 1 THEN ValidLen(B)
        ELSE -1

TextEngine == fn \in {"instr_utf8", "instr_utf16", "rinstr_utf8", "rinstr_utf16"}

(* C3: instr_utf8 on well-formed text with a non-empty needle returns the  *)
(* smallest 1-based codepoint index p >= max(start,1) at which the         *)
(* needle's codepoint sequence occurs in the haystack's, 0 if there is     *)
(* none.                                                                   *)
C3_ForwardUtf8IsNaive ==
    (Returned /\ fn = "instr_utf8" /\ needlesize > 0)
        => result = NaiveFirst(Codepoints(HayBuf), Codepoints(NeedleBuf), StartArg)

(* A match found after a Horspool skip whose floor fell inside a           *)
(* multi-byte codepoint.                                                   *)
C3_Witness ==
    /\ pc = "return"
    /\ fn = "instr_utf8"
    /\ needlesize > 1
    /\ result > 1
    /\ iters > 1
    /\ next > 0
    /\ \A k \in 1..Len(Boundaries(HayBuf, 0)) : Boundaries(HayBuf, 0)[k] # next

(***************************************************************************)
(* UTF-8 calls with the default start, run to completion: the engine is    *)
(* straight-line single-threaded code, so a step that can be taken is      *)
(* taken.                                                                  *)
(***************************************************************************)
NextUtf8 ==
    \/ instr_func
    \/ rinstr_func
    \/ instr_utf8
    \/ instr_utf8_start
    \/ instr_utf8_multi
    \/ instr_utf8_single
    \/ rinstr_utf8
    \/ rinstr_utf8_start
    \/ rinstr_utf8_multi
    \/ rinstr_utf8_single
    \/ func_result

InitUtf8Default ==
    InitCall({"instr", "rinstr"}, {"malformed_8"},
             {<<TextV(h), TextV(n)>> :
                 h \in WellFormed(Cps8, MaxHayCps), n \in WellFormed(Cps8, MaxNeedleCps)},
             {"ok"}, {FALSE})

SpecUtf8Fair == InitUtf8Default /\ [][NextUtf8]_vars /\ WF_vars(NextUtf8)

Occurs(H, N) == \E p \in 1..Len(H) : OccursAt(H, N, p)

(* C4: on well-formed UTF-8 text in which the non-empty needle occurs,     *)
(* instr_utf8 with the default start returns the codepoint position of the *)
(* first occurrence and rinstr_utf8 with the default start that of the     *)
(* last occurrence.                                                        *)
C4_DirectionalSymmetry ==
    (NeedleBuf # <<>> /\ Occurs(Codepoints(HayBuf), Codepoints(NeedleBuf)))
        => <>(/\ pc = "end"
              /\ outcome = "int"
              /\ result = IF func = "instr"
                          THEN NaiveFirst(Codepoints(HayBuf), Codepoints(NeedleBuf), 1)
                          ELSE NaiveLast(Codepoints(HayBuf), Codepoints(NeedleBuf), MAX64))

(* C5: every search call reaches a return after a number of loop           *)
(* iterations bounded by the haystack length: no loop of an engine runs    *)
(* more iterations than the haystack has units, plus the one that returns. *)
C5_BoundedIterations ==
    fn # "none" => iters <= Len(HayBuf) + 1

(* C6: on well-formed text, when a text search returns a position p > 0    *)
(* for a match confirmed at a cursor inside the haystack, that cursor is   *)
(* the offset reached by decoding p-1 whole codepoints from the start of   *)
(* the haystack.                                                           *)
C6_BoundarySafety ==
    (/\ Returned
     /\ TextEngine
     /\ result > 0
     /\ IsWellFormed(HayBuf)
     /\ haystack + Len(NeedleBuf) <= Len(HayBuf)
     /\ memcmp0(HayBuf, haystack, NeedleBuf))
        => haystack = CpOffset(HayBuf, result)

(***************************************************************************)
(* Malformed text.                                                         *)
(***************************************************************************)
Forward  == fn \in {"instr_utf8", "instr_utf16"}
Backward == fn \in {"rinstr_utf8", "rinstr_utf16"}

(* Unit offsets at which the needle's units occur in the haystack.         *)
MatchOffsets == {m \in 0..Len(HayBuf) : OccursAt(HayBuf, NeedleBuf, m + 1)}

(* C7 as claimed: for every text haystack that contains a decoding error   *)
(* and in which the needle has no match, the text engines return           *)
(* MalformedInput (-1), never Zero.                                        *)
C7_MalformedBeforeZero ==
    (Returned /\ TextEngine /\ ~IsWellFormed(HayBuf) /\ MatchOffsets = {})
        => result = -1

(* C7 as amended: on such a haystack a forward engine returns               *)
(* MalformedInput with its cursor on the first decoding error, or Zero     *)
(* with its cursor at or before that error; a backward engine returns Zero *)
(* when start <= 0 or the needle is longer than the haystack.              *)
C7_MalformedWhereDecoded ==
    (Returned /\ TextEngine /\ ~IsWellFormed(HayBuf) /\ MatchOffsets = {})
        => /\ Forward => \/ result = -1 /\ haystack = ValidLen(HayBuf)
                         \/ result = 0 /\ haystack <= ValidLen(HayBuf)
           /\ (Backward /\ (StartArg <= 0 \/ Len(NeedleBuf) > Len(HayBuf)))
                 => result = 0

(* A forward Horspool scan that gave up, Zero, before reaching the error.  *)
C7_Witness ==
    /\ pc = "return"
    /\ Forward
    /\ ~IsWellFormed(HayBuf)
    /\ MatchOffsets = {}
    /\ Len(NeedleBuf) <= Len(HayBuf)
    /\ iters >= 1
    /\ result = 0
    /\ haystack < ValidLen(HayBuf)

(* Offsets of the occurrences that count for a forward search from start:  *)
(* those at a codepoint boundary numbered >= max(start,1), and those past  *)
(* the first decoding error.                                               *)
EligibleOffsets ==
    {m \in MatchOffsets :
        \/ m > ValidLen(HayBuf)
        \/ \E p \in 1..(Len(HayBuf) + 1) :
              p >= StartArg /\ CpOffset(HayBuf, p) = m}

(* C8: when the first decoding error of the haystack lies before the       *)
(* earliest occurrence of the needle at/after start, forward search        *)
(* returns MalformedInput; and no found position is returned whose         *)
(* preceding haystack prefix contains invalid data.                        *)
C8_MalformedBeforeMatch ==
    (Returned /\ Forward)
        => /\ (/\ ~IsWellFormed(HayBuf)
               /\ EligibleOffsets # {}
               /\ \A m \in EligibleOffsets : ValidLen(HayBuf) < m)
                  => result = -1
           /\ result > 0 => haystack <= ValidLen(HayBuf)

(* A forward multi-unit scan stopped by an error that precedes a match.    *)
C8_Witness ==
    /\ pc = "return"
    /\ Forward
    /\ argc = 2
    /\ Len(NeedleBuf) > 1
    /\ ~IsWellFormed(HayBuf)
    /\ EligibleOffsets # {}
    /\ \A m \in EligibleOffsets : ValidLen(HayBuf) < m
    /\ ValidLen(HayBuf) > 0
    /\ result = -1

(* C9: when the needle of a text search is not well-formed, the call ends  *)
(* with the encoding-specific malformed error and returns no position.     *)
C9_MalformedNeedleIsError ==
    (/\ pc = "end"
     /\ args[1].type = "TEXT"
     /\ args[2].type = "TEXT"
     /\ ~IsWellFormed(NeedleBuf))
        => outcome = userdata

(***************************************************************************)
(* Calls with arguments of every kind.                                     *)
(***************************************************************************)
FuncBytes == {97, 98}

Values(n) == {NullV} \cup {BlobV(b) : b \in SeqsUpTo(FuncBytes, n)}
                     \cup {TextV(b) : b \in SeqsUpTo(FuncBytes, n)}

FuncArgs ==
    {<<h, n>> : h \in Values(MaxRawUnits), n \in Values(MaxRawNeedle)}
    \cup {<<h, n, s>> : h \in Values(MaxRawUnits), n \in Values(MaxRawNeedle),
                        s \in {NullV, IntV(1), IntV(2)}}

Init ==
    InitCall({"instr", "rinstr"}, {"malformed_8", "malformed_16"}, FuncArgs,
             {"ok", "haystack", "needle"}, {FALSE})

Next ==
    \/ instr_func
    \/ rinstr_func
    \/ instr_blob
    \/ instr_blob_multi
    \/ instr_blob_single
    \/ rinstr_blob
    \/ rinstr_blob_multi
    \/ rinstr_blob_single
    \/ instr_utf8
    \/ instr_utf8_start
    \/ instr_utf8_multi
    \/ instr_utf8_single
    \/ instr_utf16
    \/ instr_utf16_start
    \/ instr_utf16_multi
    \/ instr_utf16_single
    \/ rinstr_utf8
    \/ rinstr_utf8_start
    \/ rinstr_utf8_multi
    \/ rinstr_utf8_single
    \/ rinstr_utf16
    \/ rinstr_utf16_start
    \/ rinstr_utf16_multi
    \/ rinstr_utf16_single
    \/ func_result

Spec == Init /\ [][Next]_vars

MixedKinds ==
    /\ args[1].type # "NULL"
    /\ args[2].type # "NULL"
    /\ argc >= 3 => args[3].type # "NULL"
    /\ (args[1].type = "BLOB") # (args[2].type = "BLOB")

AnyNull == \E k \in 1..argc : args[k].type = "NULL"

(* C11: when the haystack, the needle or a supplied start is null, a call  *)
(* of instr or rinstr with at least 2 arguments ends with "no result": no  *)
(* engine is entered, no integer and no error is reported, whatever the    *)
(* kinds of the other arguments and whether or not their buffers could be  *)
(* materialized.                                                           *)
C11_NullPropagation ==
    (argc >= 2 /\ AnyNull)
        => /\ fn = "none"
           /\ pc \in {"call", "end"}
           /\ pc = "end" => outcome = "null"

(* A null start with values of mixed kinds whose buffers cannot be         *)
(* materialized: the call still ends with "no result".                     *)
C11_Witness ==
    /\ pc = "end"
    /\ argc = 3
    /\ args[3].type = "NULL"
    /\ args[1].type = "BLOB"
    /\ args[2].type = "TEXT"
    /\ alloc # "ok"
    /\ outcome = "null"

(***************************************************************************)
(* Calls on raw values and on well-formed text of both encodings.          *)
(***************************************************************************)
InitUnits == InitBlob \/ InitText

SpecUnits == InitUnits /\ [][Next]_vars

(* The haystack's length in units: bytes for raw, codepoints for text.     *)
UnitLength ==
    IF args[1].type = "BLOB" THEN Len(HayBuf) ELSE Len(Codepoints(HayBuf))

(* C12: for every raw haystack and every well-formed text haystack of      *)
(* either encoding, forward search with an empty needle and start = 1      *)
(* returns 1, and backward search with an empty needle and the default     *)
(* (unbounded) start returns the haystack's length in units (bytes for     *)
(* raw, codepoints for text) plus 1.                                       *)
C12_EmptyNeedle ==
    (Returned /\ NeedleBuf = <<>>)
        => /\ (func = "instr" /\ StartArg = 1) => result = 1
           /\ (func = "rinstr" /\ argc = 2) => result = UnitLength + 1

(* A backward search for the empty needle over UTF-16 text that holds a    *)
(* surrogate pair: codepoints and 16-bit units count differently.          *)
C12_Witness ==
    /\ pc = "return"
    /\ fn = "rinstr_utf16"
    /\ NeedleBuf = <<>>
    /\ argc = 2
    /\ Len(Codepoints(HayBuf)) >= 2
    /\ Len(HayBuf) > Len(Codepoints(HayBuf))
    /\ result = Len(Codepoints(HayBuf)) + 1

(***************************************************************************)
(* Backward search called twice by one statement on the same haystack and  *)
(* needle: first with start at the last position where the needle fits,    *)
(* then with a start beyond it.  The calls are straight-line               *)
(* single-threaded code, so a step that can be taken is taken.             *)
(***************************************************************************)
(* Haystack, needle that fits in it, and the last position at which it     *)
(* still fits, in units: each element of cps is one unit (a byte of a raw  *)
(* value, a codepoint of a text value), type is the values' type.          *)
FitArgs(cps, nh, nn, type) ==
    UNION {{<<[type |-> type, buf |-> Flatten(hs), int |-> 0],
              [type |-> type, buf |-> Flatten(ns), int |-> 0],
              IntV(Len(hs) - Len(ns) + 1)>> :
               ns \in SeqsUpTo(cps, Min({nn, Len(hs)}))} :
           hs \in SeqsUpTo(cps, nh)}

rinstr_again ==
    /\ pc = "end"
    /\ func = "rinstr"
    /\ argc = 3
    /\ prior = NoPrior
    /\ \E s \in {args[3].int + 1, args[3].int + 2, MAX64} :
          args' = [args EXCEPT ![3] = IntV(s)]
    /\ prior' = [outcome |-> outcome, result |-> result, start |-> args[3].int,
                 cursor |-> haystack]
    /\ pc' = "call"
    /\ fn' = "none"
    /\ haystack' = 0
    /\ stacksize' = 0
    /\ needlesize' = 0
    /\ start' = 0
    /\ found' = 0
    /\ next' = 0
    /\ result' = 0
    /\ outcome' = "pending"
    /\ iters' = 0
    /\ UNCHANGED <<func, userdata, argc, alloc, bigendian, table>>

NextBackward ==
    \/ rinstr_func
    \/ rinstr_blob
    \/ rinstr_blob_multi
    \/ rinstr_blob_single
    \/ rinstr_utf8
    \/ rinstr_utf8_start
    \/ rinstr_utf8_multi
    \/ rinstr_utf8_single
    \/ rinstr_utf16
    \/ rinstr_utf16_start
    \/ rinstr_utf16_multi
    \/ rinstr_utf16_single
    \/ func_result
    \/ rinstr_again

InitBackward ==
    \/ InitCall({"rinstr"}, {"malformed_8"},
                FitArgs({<<b>> : b \in BlobBytes}, MaxBlobLen, MaxBlobNeedle, "BLOB"),
                {"ok"}, {FALSE})
    \/ InitCall({"rinstr"}, {"malformed_8"},
                FitArgs(Cps8, MaxHayCps, MaxNeedleCps, "TEXT"), {"ok"}, {FALSE})
    \/ InitCall({"rinstr"}, {"malformed_16"},
                FitArgs(Cps16, MaxHay16Cps, MaxNeedleCps, "TEXT"), {"ok"}, BOOLEAN)

SpecBackward == InitBackward /\ [][NextBackward]_vars /\ WF_vars(NextBackward)

(* Both calls ended with their cursor where a needle fits in the haystack. *)
CursorsInside ==
    /\ haystack + Len(NeedleBuf) <= Len(HayBuf)
    /\ prior.cursor + Len(NeedleBuf) <= Len(HayBuf)

(* C13: for every haystack and needle that fits in it (raw, or well-formed *)
(* text), backward search with a start greater than the last position L    *)
(* where the needle still fits produces the same outcome as backward       *)
(* search with start = L: once the call with start = L has ended, the call *)
(* with a greater start ends too and reports what that call reported.      *)
C13_ClampedBackwardStart ==
    [](prior # NoPrior
          => <>(/\ pc = "end"
                /\ CursorsInside => /\ outcome = prior.outcome
                                    /\ result = prior.result))

(***************************************************************************)
(* Forward UTF-16 search.                                                  *)
(***************************************************************************)
(* C14: instr_utf16 on well-formed UTF-16 text with a well-formed          *)
(* non-empty needle (surrogate pairs included) returns, for every start,   *)
(* the smallest 1-based codepoint index (not 16-bit-unit index)            *)
(* p >= max(start,1) at which the needle's codepoint sequence occurs in    *)
(* the haystack's, and 0 when there is none: the byte-built, even-rounded  *)
(* skip table never makes the scan pass over a match.                      *)
C14_ForwardUtf16IsNaive ==
    (Returned /\ fn = "instr_utf16" /\ needlesize > 0)
        => result = NaiveFirst(Codepoints(HayBuf), Codepoints(NeedleBuf), StartArg)

(* A multi-unit match found behind a surrogate pair after at least one     *)
(* rounded skip: its codepoint index is smaller than its unit index.       *)
C14_Witness ==
    /\ pc = "return"
    /\ fn = "instr_utf16"
    /\ needlesize > 2
    /\ iters > 2
    /\ result > 1
    /\ haystack > result - 1
    /\ next > 0

(***************************************************************************)
(* The encoding cursors on their own: one application of an ADVANCE macro  *)
(* to a cursor (haystack, stacksize) in a buffer, followed, when it        *)
(* succeeded, by one application of the RETREAT macro of the same encoding *)
(* with stacksize = haystack - haystart as the backward engines set it; or *)
(* one application of a RETREAT macro alone.                               *)
(*   start      : the cursor before the first macro                        *)
(*   found      : the codepoint the ADVANCE returned (-1 if none did)      *)
(*   next, needlesize : pointer and size before the macro applied last     *)
(*   fn         : the macro applied last                                   *)
(*   result     : the codepoint it returned                                *)
(***************************************************************************)
Leads8   == {127, 128, 191, 193, 194, 223, 224, 237, 239, 240, 244, 245}
Seconds8 == {127, 128, 143, 144, 159, 160, 191, 192}
Conts8   == {127, 128, 191, 192}
Units16  == {97, 55295, 55296, 56319, 56320, 57343, 57344}

(* Byte strings whose bytes sit on the limits of the UTF-8 byte ranges.    *)
RECURSIVE EdgeOfLen(_)
EdgeOfLen(k) ==
    IF k = 0 THEN {<<>>}
    ELSE {Append(b, x) : b \in EdgeOfLen(k - 1),
                         x \in (IF k = 1 THEN Leads8 ELSE IF k = 2 THEN Seconds8
                                ELSE Conts8)}

Edge8(n) == UNION {EdgeOfLen(k) : k \in 0..n}

CursorBufs8  == Edge8(MaxCursorUnits) \cup WellFormed(Cps8, MaxHayCps)
CursorBufs16 == SeqsUpTo(Units16, MaxCursorUnits)

UnitBytes == IF userdata = "malformed_8" THEN 1 ELSE 2

InitCursor ==
    /\ func = "cursor"
    /\ userdata \in {"malformed_8", "malformed_16"}
    /\ args \in {<<TextV(b), TextV(<<>>)>> :
                    b \in IF userdata = "malformed_8" THEN CursorBufs8 ELSE CursorBufs16}
    /\ argc = 2
    /\ alloc = "ok"
    /\ bigendian = FALSE
    /\ pc \in {"advance", "retreat"}
    /\ fn = "none"
    /\ haystack \in 0..Len(HayBuf)
    /\ stacksize \in {UnitBytes * k :
                        k \in 0..(IF pc = "advance" THEN Len(HayBuf) - haystack
                                  ELSE haystack)}
    /\ needlesize = stacksize
    /\ start = haystack
    /\ found = -1
    /\ next = haystack
    /\ result = 0
    /\ outcome = "pending"
    /\ iters = 0
    /\ prior = NoPrior
    /\ NoTable

(* The macro's outcome m stored into the cursor.                           *)
Applied(macro, size, m) ==
    /\ fn' = macro
    /\ next' = haystack
    /\ needlesize' = size
    /\ haystack' = m.ptr
    /\ stacksize' = m.size
    /\ result' = m.cp
    /\ UNCHANGED <<call, start, outcome, iters>>

advance_utf8 ==
    /\ pc = "advance"
    /\ userdata = "malformed_8"
    /\ LET a == UTF8_ADVANCE(HayBuf, haystack, stacksize)
       IN  /\ Applied("UTF8_ADVANCE", stacksize, a)
           /\ found' = a.cp
           /\ pc' = IF a.cp = -1 THEN "end" ELSE "retreat"

advance_utf16 ==
    /\ pc = "advance"
    /\ userdata = "malformed_16"
    /\ LET a == UTF16_ADVANCE(HayBuf, haystack, stacksize)
       IN  /\ Applied("UTF16_ADVANCE", stacksize, a)
           /\ found' = a.cp
           /\ pc' = IF a.cp = -1 THEN "end" ELSE "retreat"

(* The size a RETREAT is given: after an ADVANCE the bytes between the     *)
(* start of the buffer and the cursor.                                     *)
RetreatSize == IF fn = "none" THEN stacksize ELSE UnitBytes * haystack

retreat_utf8 ==
    /\ pc = "retreat"
    /\ userdata = "malformed_8"
    /\ Applied("UTF8_RETREAT", RetreatSize, UTF8_RETREAT(HayBuf, haystack, RetreatSize))
    /\ pc' = "end"
    /\ UNCHANGED found

retreat_utf16 ==
    /\ pc = "retreat"
    /\ userdata = "malformed_16"
    /\ Applied("UTF16_RETREAT", RetreatSize, UTF16_RETREAT(HayBuf, haystack, RetreatSize))
    /\ pc' = "end"
    /\ UNCHANGED found

NextCursor ==
    \/ advance_utf8
    \/ advance_utf16
    \/ retreat_utf8
    \/ retreat_utf16

SpecCursor == InitCursor /\ [][NextCursor]_vars

(* C16: for every well-formed UTF-8 encoding of a codepoint (1 to 4 bytes) *)
(* preceded by any well-formed text, UTF8_RETREAT applied with the cursor  *)
(* just past that encoding returns the codepoint UTF8_ADVANCE returned     *)
(* from its first byte, moves the cursor back to that first byte and       *)
(* reduces the size counter by the encoding's byte length.                 *)
C16_Utf8RetreatMirrorsAdvance ==
    (/\ pc = "end"
     /\ fn = "UTF8_RETREAT"
     /\ found # -1
     /\ IsWellFormed(SubSeq(HayBuf, 1, start)))
        => /\ result = found
           /\ haystack = start
           /\ stacksize = needlesize - (next - start)

Low16(u)  == u >= 56320 /\ u <= 57343
High16(u) == u >= 55296 /\ u <= 56319

(* The unit the macro applied last met first is a lone or wrongly ordered  *)
(* surrogate: next and needlesize are the cursor it was applied to.        *)
LoneSurrogate ==
    LET k == needlesize \div 2
    IN  IF fn = "UTF16_ADVANCE"
        THEN /\ k >= 1
             /\ \/ Low16(HayBuf[next + 1])
                \/ /\ High16(HayBuf[next + 1])
                   /\ (k < 2 \/ ~Low16(HayBuf[next + 2]))
        ELSE /\ fn = "UTF16_RETREAT"
             /\ k >= 1
             /\ \/ High16(HayBuf[next])
                \/ /\ Low16(HayBuf[next])
                   /\ (k < 2 \/ ~High16(HayBuf[next - 1]))

(* C17: for every non-surrogate unit and every valid surrogate pair,       *)
(* UTF16_RETREAT applied with the cursor just past it returns the          *)
(* codepoint UTF16_ADVANCE returned from its first unit and moves the      *)
(* cursor back by one unit (two for a pair), reducing the size counter by  *)
(* 2 (4) bytes; a lone or wrongly ordered surrogate yields the invalid     *)
(* outcome in both directions.                                             *)
C17_Utf16RetreatMirrorsAdvance ==
    /\ (pc = "end" /\ fn = "UTF16_RETREAT" /\ found # -1)
          => /\ result = found
             /\ haystack = start
             /\ stacksize = needlesize - 2 * (next - start)
    /\ (fn \in {"UTF16_ADVANCE", "UTF16_RETREAT"} /\ LoneSurrogate)
          => result = -1

(***************************************************************************)
(* Reference UTF-8 decoding of the bytes a cursor may read, from the table *)
(* of well-formed byte sequences: length (0 if none) and scalar value.     *)
(***************************************************************************)
Available == SubSeq(HayBuf, next + 1, next + needlesize)

RefValue8(b, n) ==
    IF n = 1 THEN b[1]
    ELSE IF n = 2 THEN (b[1] - 192) * 64 + (b[2] - 128)
    ELSE IF n = 3 THEN (b[1] - 224) * 4096 + (b[2] - 128) * 64 + (b[3] - 128)
    ELSE (b[1] - 240) * 262144 + (b[2] - 128) * 4096 + (b[3] - 128) * 64 + (b[4] - 128)

(* C18: UTF8_ADVANCE returns a codepoint and consumes n bytes exactly when *)
(* the next n bytes within the remaining length are the shortest-form      *)
(* UTF-8 encoding of a scalar value in 0..0x10FFFF outside 0xD800..0xDFFF, *)
(* and then returns that value; every other input (overlong form,          *)
(* surrogate, value above 0x10FFFF, stray continuation byte, sequence cut  *)
(* by the length counter, no bytes left) returns -1 with cursor and size   *)
(* unchanged; the outcome is the same on the buffer cut at the remaining   *)
(* length, so no byte past it is read.                                     *)
C18_Utf8AdvanceAcceptsWellFormed ==
    fn = "UTF8_ADVANCE"
        => LET n == IF Available = <<>> THEN 0 ELSE RefLen8(Available, 0)
               v == RefValue8(Available, n)
           IN  /\ IF n > 0
                  THEN /\ result = v
                       /\ v >= 0 /\ v <= 1114111 /\ (v < 55296 \/ v > 57343)
                       /\ haystack = next + n
                       /\ stacksize = needlesize - n
                  ELSE /\ result = -1
                       /\ haystack = next
                       /\ stacksize = needlesize
               /\ UTF8_ADVANCE(SubSeq(HayBuf, 1, next + needlesize), next, needlesize)
                     = [cp |-> result, ptr |-> haystack, size |-> stacksize]

(* A 4-byte encoding cut to 3 bytes by the length counter: rejected.       *)
C18_Witness ==
    /\ fn = "UTF8_ADVANCE"
    /\ needlesize = 3
    /\ Len(HayBuf) >= next + 4
    /\ RefLen8(HayBuf, next) = 4
    /\ result = -1

(***************************************************************************)
(* Skip tables, as the engines build them on entering their multi-unit     *)
(* loop.                                                                   *)
(***************************************************************************)
Utf16Engine == fn \in {"instr_utf16", "rinstr_utf16"}
ForwardTable == fn \in {"instr_blob", "instr_utf8", "instr_utf16"}

(* The arguments of the fbmh_setup / rbmh_setup call of the engine.        *)
NeedleBytes == IF Utf16Engine THEN Bytes16(NeedleBuf, bigendian) ELSE NeedleBuf
Mask == IF Utf16Engine THEN 1 ELSE 0

SkipTable ==
    IF ForwardTable THEN fbmh_setup(NeedleBytes, needlesize, Mask)
    ELSE rbmh_setup(NeedleBytes, needlesize, Mask)

(* Calls with the default start on raw values and well-formed text.        *)
InitSkips == InitUnits /\ argc = 2

SpecSkips == InitSkips /\ [][Next]_vars

(* The Horspool shift functions, from their definition.                    *)
ShiftForward(N, b) ==
    LET n  == Len(N)
        at == {i \in 0..(n - 2) : N[i + 1] = b}
    IN  IF at = {} THEN n ELSE (n - 1) - Max(at)

ShiftBackward(N, b) ==
    LET n  == Len(N)
        at == {i \in 1..(n - 1) : N[i + 1] = b}
    IN  IF at = {} THEN n ELSE Min(at)

UpToEven(v) == IF v % 2 = 0 THEN v ELSE v + 1

Shift(b) ==
    LET v == IF ForwardTable THEN ShiftForward(NeedleBytes, b)
             ELSE ShiftBackward(NeedleBytes, b)
    IN  IF Mask = 1 THEN UpToEven(v) ELSE v

(* The skip the loop is about to take from its table.                      *)
CurrentSkip ==
    LET at == IF ForwardTable THEN UnitBytes * haystack + needlesize - 1
              ELSE UnitBytes * haystack
    IN  SkipTable[IF Utf16Engine THEN ByteOf16(HayBuf, at, bigendian)
                  ELSE HayBuf[at + 1]]

(* C19: for every needle of length n >= 2 an engine builds a table for,    *)
(* fbmh_setup gives table[b] = (n-1) - i for the largest index i in        *)
(* 0..n-2 with needle[i] = b and n if there is none, rbmh_setup gives the  *)
(* smallest index i in 1..n-1 with needle[i] = b and n if there is none,   *)
(* each rounded up to the next even number when mask = 1; every entry is   *)
(* between 1 and n, and a forward loop that subtracts a skip from its      *)
(* remaining length has at least that much left.                           *)
C19_SkipTables ==
    /\ (pc = "multi" /\ iters = 0)
          => /\ needlesize >= 2
             /\ needlesize = Len(NeedleBytes)
             /\ SkipTable = [b \in 0..255 |-> Shift(b)]
             /\ \A b \in 0..255 : Shift(b) \in 1..needlesize
    /\ (/\ pc = "multi"
        /\ ForwardTable
        /\ stacksize >= needlesize
        /\ haystack + Len(NeedleBuf) <= Len(HayBuf))
          => CurrentSkip \in 1..stacksize

(* A UTF-16 needle in which a byte occurs twice and whose table holds an   *)
(* entry that the mask rounded up.                                         *)
C19_Witness ==
    /\ pc = "multi"
    /\ fn = "instr_utf16"
    /\ iters >= 1
    /\ \E b \in {0, 97} :
          /\ Cardinality({i \in 0..(needlesize - 2) : NeedleBytes[i + 1] = b}) >= 2
          /\ ShiftForward(NeedleBytes, b) % 2 = 1
          /\ SkipTable[b] = ShiftForward(NeedleBytes, b) + 1


(***************************************************************************)
(* generate_zeries (src/zeries.c).                                         *)
(*                                                                         *)
(* The table's arithmetic is about the whole range of sqlite3_int64, so    *)
(* the model enumerates that range: sqlite3_int64 is a ZMAX64-wide signed  *)
(* integer here (MAX64 and MIN64 of zeries.c are ZMAX64 and ZMIN64) and    *)
(* sqlite3_uint64 counts modulo ZU64 = 2 * (ZMAX64 + 1).                   *)
(***************************************************************************)
ZMAX64 == 7
ZMIN64 == -ZMAX64 - 1
ZU64 == 2 * (ZMAX64 + 1)

Int64 == ZMIN64..ZMAX64

(* (sqlite3_uint64)x for a signed x, and the conversion back.              *)
ToU64(x) == x % ZU64
ToI64(u) == IF u % ZU64 > ZMAX64 THEN (u % ZU64) - ZU64 ELSE u % ZU64

(* A signed result outside the type is undefined behaviour.  A build       *)
(* either lets it wrap (overflow = "wrap": the two's complement value) or  *)
(* ends the process (overflow = "trap", as under -ftrapv); the operators   *)
(* below give the wrapped value, and their _overflows companions say       *)
(* whether the computation left the type.                                  *)
Overflows(x) == x \notin Int64

(* udiff: the distance high - low as an unsigned number                    *)
udiff(high, low) ==
    IF low >= 0 \/ high < 0
    THEN ToU64(high - low)
    ELSE (ToU64(high) + ToU64(ToI64(-low))) % ZU64

udiff_overflows(high, low) ==
    IF low >= 0 \/ high < 0
    THEN Overflows(high - low)
    ELSE Overflows(-low)

(* uadd: base + diff for an unsigned diff, in steps of at most MAX64       *)
RECURSIVE uadd(_, _)
uadd(base, diff) ==
    IF diff > ZMAX64
    THEN uadd(ToI64(base + ZMAX64), diff - ZMAX64)
    ELSE ToI64(ToU64(base) + diff)

RECURSIVE uadd_overflows(_, _)
uadd_overflows(base, diff) ==
    /\ diff > ZMAX64
    /\ \/ Overflows(base + ZMAX64)
       \/ uadd_overflows(ToI64(base + ZMAX64), diff - ZMAX64)

(* usub: base - diff for an unsigned diff                                  *)
RECURSIVE usub(_, _)
usub(base, diff) ==
    IF diff > ZMAX64
    THEN usub(ToI64(base - ZMAX64), diff - ZMAX64)
    ELSE ToI64(ToU64(base) - diff)

RECURSIVE usub_overflows(_, _)
usub_overflows(base, diff) ==
    /\ diff > ZMAX64
    /\ \/ Overflows(base - ZMAX64)
       \/ usub_overflows(ToI64(base - ZMAX64), diff - ZMAX64)

(***************************************************************************)
(* Argument values of zeries_filter.  A double is modelled by twice its    *)
(* value (field halves), so that the model has non-integral doubles and    *)
(* doubles beyond the integer range; what sqlite3_value_numeric_type       *)
(* reports as neither integer nor float is the NULL value here.            *)
(***************************************************************************)
FloatV(h) == [type |-> "FLOAT", buf |-> <<>>, int |-> 0, halves |-> h]

(* (double)ival, in halves.  Every integer of the model converts exactly   *)
(* but the largest: MAX64 = 2^63 - 1 is no double and rounds to 2^63.      *)
ToDouble(i) == IF i = ZMAX64 THEN 2 * (ZMAX64 + 1) ELSE 2 * i

(* ival = dval: truncation toward zero.  A value outside the integer type  *)
(* is undefined behaviour; the builds give the type's least value (conv =  *)
(* "indefinite", x86) or the nearest value of the type (conv = "saturate", *)
(* ARM).                                                                   *)
Truncate(h) == IF h >= 0 THEN h \div 2 ELSE -((-h) \div 2)

Conversions == {"indefinite", "saturate"}

FromDouble(h, conv) ==
    IF Truncate(h) \in Int64 THEN Truncate(h)
    ELSE IF conv = "saturate" /\ h > 0 THEN ZMAX64
    ELSE ZMIN64

(* ival of zeries_filter's loop body, for a numeric value                  *)
ival_of(val, conv) ==
    IF val.type = "INTEGER" THEN val.int ELSE FromDouble(val.halves, conv)

exact_names == {"offset", "limit", "step", "base"}

(* The locals of zeries_filter before its loop.  exit is "none" while the  *)
(* loop runs, "empty" after goto empty, else the status returned.          *)
FilterStart ==
    [exact |-> [n \in exact_names |->
                  CASE n = "offset" -> 0
                    [] n = "limit" -> -1
                    [] n = "step" -> 1
                    [] n = "base" -> 0],
     seen |-> {},
     lower |-> ZMIN64,
     upper |-> ZMAX64,
     exit |-> "none"]

Leave(st, how) == [st EXCEPT !.exit = how]

(* An upper bound ival taken into the range                                *)
TakeUpper(st, ival) ==
    IF ival < st.upper
    THEN IF ival < st.lower THEN Leave(st, "empty")
         ELSE [st EXCEPT !.upper = ival]
    ELSE st

(* A lower bound ival taken into the range                                 *)
TakeLower(st, ival) ==
    IF ival > st.lower
    THEN IF ival > st.upper THEN Leave(st, "empty")
         ELSE [st EXCEPT !.lower = ival]
    ELSE st

(* One iteration of zeries_filter's loop: constraint constr_ix with value  *)
(* val                                                                     *)
FilterArg(st, constr_ix, val, conv) ==
    LET ntype == val.type
        ival == ival_of(val, conv)
        dval == val.halves
        lossless == \/ ntype = "INTEGER"
                    \/ ntype = "FLOAT" /\ ToDouble(ival) = dval
    IN  CASE constr_ix \in exact_names ->
               IF ~lossless THEN Leave(st, "SQLITE_MISMATCH")
               ELSE IF constr_ix \in st.seen
               THEN IF ival # st.exact[constr_ix] THEN Leave(st, "empty")
                    ELSE st
               ELSE [st EXCEPT !.exact[constr_ix] = ival,
                               !.seen = @ \cup {constr_ix}]
          [] constr_ix = "eq" ->
               IF ~lossless THEN Leave(st, "empty")
               ELSE IF ival < st.lower \/ ival > st.upper
               THEN Leave(st, "empty")
               ELSE [st EXCEPT !.lower = ival, !.upper = ival]
          [] constr_ix = "lt" ->
               IF ntype \notin {"INTEGER", "FLOAT"} THEN Leave(st, "empty")
               ELSE IF ntype = "INTEGER" \/ ToDouble(ival) >= dval
               THEN IF ival > ZMIN64 THEN TakeUpper(st, ival - 1)
                    ELSE Leave(st, "empty")
               ELSE TakeUpper(st, ival)
          [] constr_ix = "le" ->
               IF ntype \notin {"INTEGER", "FLOAT"} THEN Leave(st, "empty")
               ELSE IF ntype = "FLOAT" /\ ToDouble(ival) > dval
               THEN IF ival > ZMIN64 THEN TakeUpper(st, ival - 1)
                    ELSE Leave(st, "empty")
               ELSE TakeUpper(st, ival)
          [] constr_ix = "ge" ->
               IF ntype \notin {"INTEGER", "FLOAT"} THEN Leave(st, "empty")
               ELSE IF ntype = "FLOAT" /\ ToDouble(ival) < dval
               THEN IF ival < ZMAX64 THEN TakeLower(st, ival + 1)
                    ELSE Leave(st, "empty")
               ELSE TakeLower(st, ival)
          [] constr_ix = "gt" ->
               IF ntype \notin {"INTEGER", "FLOAT"} THEN Leave(st, "empty")
               ELSE IF ntype = "INTEGER" \/ ToDouble(ival) <= dval
               THEN IF ival < ZMAX64 THEN TakeLower(st, ival + 1)
                    ELSE Leave(st, "empty")
               ELSE TakeLower(st, ival)
          [] OTHER -> Leave(st, "SQLITE_INTERNAL")

(* zeries_filter's loop from argument arg_ix (1-based) on.  (Here and      *)
(* below a one-element set comprehension names an intermediate result, so  *)
(* that it is computed once.)                                              *)
RECURSIVE FilterLoop(_, _, _, _, _)
FilterLoop(st, arg_ix, str, argv, conv) ==
    IF arg_ix > Len(argv) \/ st.exit # "none" THEN st
    ELSE CHOOSE end \in
             {FilterLoop(st2, arg_ix + 1, str, argv, conv) :
                 st2 \in {FilterArg(st, str[arg_ix], argv[arg_ix], conv)}} : TRUE

(* The set of values congruent to base is cut to the range: lowest and     *)
(* highest are the ends of the progression inside the integer type, upper  *)
(* is moved down and lower up onto the progression (ustep > 1).  ub says   *)
(* whether a signed computation on the way left the type.                  *)
Lowest(base, ustep) == usub(base, (udiff(base, ZMIN64) \div ustep) * ustep)

Highest(base, ustep) == uadd(base, (udiff(ZMAX64, base) \div ustep) * ustep)

AlignUpper_asis(upper, lowest, ustep) == upper

AlignUpper(upper, lowest, ustep) ==
    uadd(lowest, (udiff(upper, lowest) \div ustep) * ustep)

AlignLower(lower, highest, ustep) ==
    usub(highest, (udiff(highest, lower) \div ustep) * ustep)

Align(lower, upper, base, ustep) ==
    LET lowest == Lowest(base, ustep)
        ub1 == \/ udiff_overflows(base, ZMIN64)
               \/ usub_overflows(base, (udiff(base, ZMIN64) \div ustep) * ustep)
        upper2 == AlignUpper(upper, lowest, ustep)
        ub2 == \/ ub1
               \/ udiff_overflows(upper, lowest)
               \/ uadd_overflows(lowest, (udiff(upper, lowest) \div ustep) * ustep)
        highest == Highest(base, ustep)
        ub3 == \/ ub2
               \/ udiff_overflows(ZMAX64, base)
               \/ uadd_overflows(base, (udiff(ZMAX64, base) \div ustep) * ustep)
        lower2 == AlignLower(lower, highest, ustep)
        ub4 == \/ ub3
               \/ udiff_overflows(highest, lower)
               \/ usub_overflows(highest, (udiff(highest, lower) \div ustep) * ustep)
    IN  IF ustep <= 1
        THEN [empty |-> FALSE, lower |-> lower, upper |-> upper, ub |-> FALSE]
        ELSE IF upper < lowest
        THEN [empty |-> TRUE, lower |-> lower, upper |-> upper, ub |-> ub1]
        ELSE IF lower > highest
        THEN [empty |-> TRUE, lower |-> lower, upper |-> upper2, ub |-> ub3]
        ELSE [empty |-> lower2 > upper2, lower |-> lower2, upper |-> upper2,
              ub |-> ub4]

(* uadd in an ascending scan, usub in a descending one                     *)
Move(desc, base, diff) == IF desc THEN usub(base, diff) ELSE uadd(base, diff)

Move_overflows(desc, base, diff) ==
    IF desc THEN usub_overflows(base, diff) ELSE uadd_overflows(base, diff)

(* The offset applied to the start and the limit to the stop               *)
Window(desc, first, last, length, offset, limit, ustep) ==
    LET skip == (ToU64(offset) * ustep) % ZU64
        from == IF offset > 0 THEN Move(desc, first, skip) ELSE first
        length2 == IF offset > 0 THEN (length - ToU64(offset)) % ZU64 ELSE length
        limited == limit > 0 /\ ToU64(limit) <= length2
        span == (ToU64(limit - 1) * ustep) % ZU64
    IN  [start |-> from,
         stop |-> IF limited THEN Move(desc, from, span) ELSE last,
         ub |-> \/ offset > 0 /\ Move_overflows(desc, first, skip)
                \/ limited /\ Move_overflows(desc, from, span)]

(* zeries_filter after its loop: what it returns and what it stores in the *)
(* cursor.  stored says whether cols, step and stop are written.           *)
Stored(st, status, eof, ub) ==
    [status |-> status, stored |-> FALSE, eof |-> eof, ub |-> ub,
     cols |-> <<0, st.exact["step"], st.exact["base"]>>, step |-> 0, stop |-> 0]

(* zeries_filter from the computation of length on, al being the aligned   *)
(* range                                                                   *)
Ranged(st, num, al) ==
    LET step == st.exact["step"]
        ustep == IF step > 0 THEN step ELSE ToU64(-step)
        length == udiff(al.upper, al.lower) \div ustep
        ub5 == al.ub \/ udiff_overflows(al.upper, al.lower)
        offset == st.exact["offset"]
        limit == st.exact["limit"]
        w == IF num % 2 = 0
             THEN Window(FALSE, al.lower, al.upper, length, offset, limit, ustep)
             ELSE Window(TRUE, al.upper, al.lower, length, offset, limit, ustep)
    IN  IF al.empty
        THEN Stored(st, "SQLITE_OK", 1, al.ub)
        ELSE IF offset > 0 /\ ToU64(offset) > length
        THEN Stored(st, "SQLITE_OK", 1, ub5)
        ELSE [status |-> "SQLITE_OK", stored |-> TRUE, eof |-> 0,
              ub |-> ub5 \/ w.ub,
              cols |-> <<w.start, st.exact["step"], st.exact["base"]>>,
              step |-> IF num % 2 = 0 THEN ToI64(ustep) ELSE -ToI64(ustep),
              stop |-> w.stop]

(* zeries_filter after its loop, st being the locals the loop left         *)
FilterRange(st, num) ==
    LET step == st.exact["step"]
        ustep == IF step > 0 THEN step ELSE ToU64(-step)
    IN  IF ~(step > 0 \/ (step < 0 /\ step > ZMIN64))
        THEN Stored(st, "SQLITE_ERROR", 1, FALSE)
        ELSE CHOOSE r \in
                 {Ranged(st, num, al) :
                     al \in {Align(st.lower, st.upper, st.exact["base"], ustep)}} : TRUE

FilterEnd(st, num) ==
    IF st.exit = "empty" THEN Stored(st, "SQLITE_OK", 1, FALSE)
    ELSE IF st.exit # "none" THEN Stored(st, st.exit, 1, FALSE)
    ELSE FilterRange(st, num)

(* zeries_filter from its loop on                                          *)
Filter(num, str, argv, conv) ==
    CHOOSE r \in {FilterEnd(st, num) :
                     st \in {FilterLoop(FilterStart, 1, str, argv, conv)}} : TRUE

(***************************************************************************)
(* The scan of one statement: SQLite calls zeries_filter, then zeries_eof, *)
(* and while that reports a row zeries_column and zeries_next.  pc is the  *)
(* method called next; outcome is what the last method returned, "trap"    *)
(* when a signed overflow ended the process.                               *)
(***************************************************************************)
Overflowing == {"wrap", "trap"}

zeries_filter ==
    /\ pc = "filter"
    /\ \E conv \in Conversions, overflow \in Overflowing :
          \E r \in {Filter(index_num, index_str, args, conv)} :
              IF argc # Len(index_str)
              THEN /\ outcome' = "SQLITE_INTERNAL"
                   /\ pc' = "closed"
                   /\ UNCHANGED cursor
              ELSE IF r.ub /\ overflow = "trap"
              THEN /\ outcome' = "trap"
                   /\ pc' = "closed"
                   /\ UNCHANGED cursor
              ELSE /\ outcome' = r.status
                   /\ pc' = IF r.status = "SQLITE_OK" THEN "eof" ELSE "closed"
                   /\ cursor' = IF r.stored
                                THEN [cols |-> r.cols, step |-> r.step,
                                      stop |-> r.stop, eof |-> r.eof]
                                ELSE [cursor EXCEPT !.eof = r.eof]
    /\ UNCHANGED <<func, userdata, argc, args, alloc, bigendian, prior,
                   index_num, index_str, rows, fn, haystack, stacksize,
                   needlesize, start, found, next, result, iters>>

zeries_eof ==
    /\ pc = "eof"
    /\ pc' = IF cursor.eof = 1 THEN "done" ELSE "column"
    /\ result' = cursor.eof
    /\ UNCHANGED <<call, fn, haystack, stacksize, needlesize, start, found,
                   next, outcome, iters>>

(* zeries_column for the value column                                      *)
zeries_column ==
    /\ pc = "column"
    /\ rows' = IF cursor.eof = 0 THEN Append(rows, cursor.cols[1]) ELSE rows
    /\ outcome' = "SQLITE_OK"
    /\ pc' = "next"
    /\ UNCHANGED <<func, userdata, argc, args, alloc, bigendian, prior,
                   index_num, index_str, cursor, fn, haystack, stacksize,
                   needlesize, start, found, next, result, iters>>

(* zeries_next, after a row and once more after the scan has ended         *)
zeries_next ==
    /\ pc \in {"next", "done"}
    /\ \E overflow \in Overflowing :
          IF cursor.eof = 0 /\ cursor.cols[1] # cursor.stop
             /\ Overflows(cursor.cols[1] + cursor.step) /\ overflow = "trap"
          THEN /\ outcome' = "trap"
               /\ pc' = "closed"
               /\ UNCHANGED cursor
          ELSE /\ outcome' = "SQLITE_OK"
               /\ pc' = IF pc = "next" THEN "eof" ELSE "closed"
               /\ cursor' = IF cursor.eof # 0 THEN cursor
                            ELSE IF cursor.cols[1] = cursor.stop
                            THEN [cursor EXCEPT !.eof = 1]
                            ELSE [cursor EXCEPT
                                    !.cols[1] = ToI64(@ + cursor.step)]
    /\ UNCHANGED <<func, userdata, argc, args, alloc, bigendian, prior,
                   index_num, index_str, rows, fn, haystack, stacksize,
                   needlesize, start, found, next, result, iters>>

NextZeries ==
    \/ zeries_filter
    \/ zeries_eof
    \/ zeries_column
    \/ zeries_next

(***************************************************************************)
(* The statements the table is scanned for.  A query is the idxNum, the    *)
(* idxStr and the argv zeries_best_index and SQLite hand to zeries_filter: *)
(* the exact parameters first, then the constraints on value, each a pair  *)
(* of the constraint's name and its value.                                 *)
(***************************************************************************)
IntValues == {IntV(i) : i \in Int64}

(* -2^63 - 1 ulp, -2^63, -2.5, 0.5, 2.0, 2.5 and 2^63                      *)
FloatValues ==
    {FloatV(h) : h \in {2 * ZMIN64 - 2, 2 * ZMIN64, -5, 1, 4, 5, 2 * ZMAX64 + 2}}

ArgValues == IntValues \cup FloatValues \cup {NullV}

FewValues ==
    {IntV(i) : i \in {ZMIN64, -3, 0, 2, ZMAX64}}
    \cup {FloatV(h) : h \in {2 * ZMIN64 - 2, 5, 2 * ZMAX64 + 2}}
    \cup {NullV}

WindowValues ==
    {IntV(i) : i \in {ZMIN64, -3, 2, ZMAX64}}
    \cup {FloatV(h) : h \in {5, 2 * ZMAX64 + 2}}
    \cup {NullV}

value_ops == {"eq", "lt", "le", "ge", "gt"}

(* generate_zeries(), generate_zeries(step), generate_zeries(step, base)   *)
AllParams ==
    {<<>>}
    \cup {<<<<"step", s>>>> : s \in ArgValues}
    \cup {<<<<"step", s>>, <<"base", b>>>> : s \in IntValues, b \in IntValues}
    \cup {<<<<"step", IntV(3)>>, <<"base", b>>>> : b \in FloatValues \cup {NullV}}

FewParams ==
    {<<>>, <<<<"step", IntV(3)>>>>,
     <<<<"step", IntV(-2)>>, <<"base", IntV(1)>>>>,
     <<<<"step", IntV(5)>>, <<"base", IntV(-3)>>>>}

UpToOne(V) == {<<>>} \cup {<<<<op, v>>>> : op \in value_ops, v \in V}

Two(V) == {<<<<o1, v1>>, <<o2, v2>>>> : o1 \in value_ops, v1 \in V,
                                         o2 \in value_ops, v2 \in V}

InitScan(P, C) ==
    /\ func = "generate_zeries"
    /\ userdata = "none"
    /\ alloc = "ok"
    /\ bigendian = FALSE
    /\ index_num \in {0, 1}
    /\ \E p \in P, c \in C :
          /\ index_str = [k \in 1..(Len(p) + Len(c)) |-> (p \o c)[k][1]]
          /\ args = [k \in 1..(Len(p) + Len(c)) |-> (p \o c)[k][2]]
    /\ argc = Len(args)
    /\ cursor = NoCursor
    /\ rows = <<>>
    /\ pc = "filter"
    /\ fn = "none"
    /\ haystack = 0
    /\ stacksize = 0
    /\ needlesize = 0
    /\ start = 0
    /\ found = 0
    /\ next = 0
    /\ result = 0
    /\ outcome = "pending"
    /\ iters = 0
    /\ prior = NoPrior

InitSeries ==
    \/ InitScan(AllParams, UpToOne(ArgValues))
    \/ InitScan(FewParams, Two(FewValues))

SpecSeries == InitSeries /\ [][NextZeries]_vars

(***************************************************************************)
(* Reference: the rows the doc comment of generate_zeries promises.        *)
(***************************************************************************)
(* The integer an exact parameter denotes: its default when the statement  *)
(* does not give it, NoInteger (a number outside the integer type) when    *)
(* the value given is no integer.                                          *)
NoInteger == ZU64

Given(name, default) ==
    LET at == {k \in 1..Len(index_str) : index_str[k] = name}
        val == args[CHOOSE k \in at : TRUE]
    IN  IF at = {} THEN default
        ELSE IF val.type = "INTEGER" THEN val.int
        ELSE IF val.type = "FLOAT" /\ val.halves % 2 = 0 THEN val.halves \div 2
        ELSE NoInteger

Magnitude(s) == IF s < 0 THEN -s ELSE s

(* v op val, as SQL compares an integer with an integer, a float or NULL   *)
Satisfies(v, op, val) ==
    LET a == IF val.type = "INTEGER" THEN v ELSE 2 * v
        b == IF val.type = "INTEGER" THEN val.int ELSE val.halves
    IN  /\ val.type \in {"INTEGER", "FLOAT"}
        /\ CASE op = "eq" -> a = b
             [] op = "lt" -> a < b
             [] op = "le" -> a <= b
             [] op = "ge" -> a >= b
             [] op = "gt" -> a > b

Progression(s, b) ==
    {v \in Int64 :
        /\ (v - b) % Magnitude(s) = 0
        /\ \A k \in 1..Len(index_str) :
              index_str[k] \in value_ops => Satisfies(v, index_str[k], args[k])}

(* seq lists the set S, each element once, ascending or descending         *)
Lists(seq, S, desc) ==
    /\ Len(seq) = Cardinality(S)
    /\ {seq[k] : k \in 1..Len(seq)} = S
    /\ \A k \in 1..(Len(seq) - 1) :
          IF desc THEN seq[k] > seq[k + 1] ELSE seq[k] < seq[k + 1]

(* The statement of the claim's premise: an integer step of magnitude      *)
(* 1 .. 2^63 - 1, an integer base, no limit and no offset.                 *)
SeriesStatement ==
    /\ func = "generate_zeries"
    /\ Given("step", 1) \in Int64 \ {0, ZMIN64}
    /\ Given("base", 0) \in Int64
    /\ \A k \in 1..Len(index_str) : index_str[k] \notin {"offset", "limit"}

(* C15: once the scan of a statement with an integer step s, 1 <= |s| <    *)
(* 2^63, an integer base b, any constraints on value and neither limit nor *)
(* offset has ended, every method returned SQLITE_OK and the rows handed   *)
(* out are exactly the integers congruent to b modulo |s| that satisfy     *)
(* every constraint, each once, ascending, or descending under flag_desc.  *)
C15_ExactProgression ==
    (SeriesStatement /\ pc \in {"done", "closed"}) =>
        /\ outcome = "SQLITE_OK"
        /\ cursor.eof = 1
        /\ Lists(rows, Progression(Given("step", 1), Given("base", 0)),
                 index_num = 1)

(***************************************************************************)
(* Statements with LIMIT and OFFSET: the exact parameters offset and limit *)
(* as zeries_best_index passes them on, with a step, a base and up to two  *)
(* constraints on value.                                                   *)
(***************************************************************************)
Optional(name, V) == {<<>>} \cup {<<<<name, IntV(v)>>>> : v \in V}

WindowParams ==
    {s \o b \o o \o l :
        s \in Optional("step", {-3, 2, 5, ZMAX64}),
        b \in Optional("base", {-3, ZMAX64}),
        o \in Optional("offset", {-1, 1, 2, ZMAX64}),
        l \in Optional("limit", {0, 1, 2, 5, ZMAX64})}

Between(V) == {<<<<"ge", IntV(a)>>, <<"le", IntV(b)>>>> : a \in V, b \in V}

InitZeries ==
    InitScan(WindowParams,
             UpToOne(WindowValues) \cup Between({ZMIN64, -3, 2, ZMAX64}))

(* SQLite goes on stepping a scan it has begun until xEof reports its end  *)
ScanStep ==
    \/ zeries_eof
    \/ zeries_column
    \/ zeries_next

SpecZeries == InitZeries /\ [][NextZeries]_vars /\ WF_vars(ScanStep)

(* zeries_filter has returned SQLITE_OK with eof = 0 and the scan goes on  *)
Scanning ==
    /\ func = "generate_zeries"
    /\ pc \in {"eof", "column", "next"}
    /\ cursor.eof = 0

(* stop lies a whole number of steps ahead of value                        *)
StopAhead ==
    /\ cursor.step # 0
    /\ (cursor.stop - cursor.cols[1]) % Magnitude(cursor.step) = 0
    /\ IF cursor.step > 0 THEN cursor.cols[1] <= cursor.stop
       ELSE cursor.cols[1] >= cursor.stop

(* what a call of zeries_next does to the cursor                           *)
NextMoves ==
    IF cursor.eof # 0 THEN UNCHANGED <<cursor, rows>>
    ELSE IF cursor.cols[1] = cursor.stop
    THEN cursor' = [cursor EXCEPT !.eof = 1]
    ELSE /\ cursor.cols[1] + cursor.step \in Int64
         /\ cursor' = [cursor EXCEPT !.cols[1] = @ + cursor.step]
         /\ outcome' = "SQLITE_OK"

(* C20: after zeries_filter returned SQLITE_OK with eof = 0, for any step, *)
(* base, constraints, offset, limit and direction, stop is a whole number  *)
(* of steps ahead of value; each zeries_next either sets eof, when value = *)
(* stop, or adds the signed step to value without leaving the 64-bit       *)
(* range; eof is set after finitely many calls; and with eof set           *)
(* zeries_next changes nothing.                                            *)
C20_ReachesEof ==
    /\ [](Scanning => StopAhead /\ outcome = "SQLITE_OK")
    /\ [][(func = "generate_zeries" /\ pc \in {"next", "done"}) => NextMoves]_vars
    /\ (Scanning ~> cursor.eof = 1)

C20_Witness ==
    /\ func = "generate_zeries"
    /\ pc = "closed"
    /\ outcome = "SQLITE_OK"
    /\ cursor.eof = 1
    /\ index_num = 1
    /\ Given("offset", 0) = 1
    /\ Given("limit", -1) = 2
    /\ Given("step", 1) = -3
    /\ rows = <<1, -2>>

====
